---- MODULE Spec2Model ----
(***************************************************************************)
(* The user model of the shop's server (models/user.model.js) as a state   *)
(* machine: the stored user documents, the requests in flight (each holds  *)
(* the document it loaded and writes back only the paths it modified, as   *)
(* Mongoose's save() does), the clock, and the tokens handed to callers.   *)
(***************************************************************************)
EXTENDS Integers, Sequences, FiniteSets, TLC

\* ------------------------------------------------------------------ bounds
NUsers == 2          \* user documents the store can hold
NProcs == 2          \* requests in flight at the same time
MaxTime == 2         \* the clock runs 0..MaxTime; tokens signed in one tick share iat
MaxVersion == 3      \* tokenVersion is bumped only below this value
ResetTTL == 1        \* 10 minutes, in ticks
AccessTTL == 2       \* 1 hour, in ticks
VerifyTTL == 2       \* 24 hours, in ticks
RefreshTTL == 3      \* 7 days, in ticks

NGateIds == 3        \* user ids the permission methods are called with
MaxPage == 2         \* findWithPagination: page is in 1..MaxPage
MaxLimit == 2        \* findWithPagination: limit is in 1..MaxLimit
NProducts == 2       \* product documents the store can hold
MaxSent == 2         \* requests the client sends
MaxFetches == 3      \* fetches of the profile query
NOrders == 1         \* orders in the store
MaxPayments == 2     \* payments the providers are asked to create

Ids == 1..NUsers
GateIds == 1..NGateIds
Roles == {"customer", "admin", "vendor"}
Procs == 1..NProcs
Times == 0..MaxTime

\* Raw e-mail inputs; the schema lowercases and trims them.
RawEmails == {"a@x.io", " A@X.io", "b@x.io"}
Passwords == {<<"pw1">>, <<"pw2">>}

\* -------------------------------------------------------- values and schema
NoToken == <<>>
NoDate == -1
NoPassword == <<>>

\* email: { lowercase: true, trim: true }
NormalizeEmail(e) == IF e = " A@X.io" THEN "a@x.io" ELSE e

\* bcrypt.hash(s, 10): a value that is never the plaintext; hashing a hash
\* gives yet another value.
BcryptHash(s) == <<"$2b$10$">> \o s

\* bcrypt.compare(data, hash): "throws" when the hash is missing.
BcryptCompare(data, hash) ==
  IF hash = NoPassword THEN "throws"
  ELSE IF hash = BcryptHash(data) THEN "true" ELSE "false"

\* jwt.sign(payload, secret, {expiresIn}): iat is the clock in whole seconds,
\* exp = iat + expiresIn; the same payload signed in the same second is the
\* same string.
JwtSign(payload, secret, ttl, t) == <<secret>> \o payload \o <<t, t + ttl>>

\* jwt.verify: the token is expired once the clock reaches exp.
JwtExpired(token, t) == t >= token[Len(token)]

\* A document no request has loaded / a slot of the store holding no user.
NoUser ==
  [exists |-> FALSE, id |-> 0, email |-> "", role |-> "customer",
   password |-> NoPassword, isActive |-> FALSE, isEmailVerified |-> FALSE,
   tokenVersion |-> 1,
   emailVerificationToken |-> NoToken, emailVerificationExpires |-> NoDate,
   resetPasswordToken |-> NoToken, resetPasswordExpires |-> NoDate,
   refreshToken |-> NoToken]

Idle == [op |-> "idle", id |-> 0, doc |-> NoUser, arg |-> <<>>]

NoResp == [op |-> "none", id |-> 0, err |-> "", access |-> NoToken,
           refresh |-> NoToken, tok |-> NoToken, views |-> <<>>]

NoRequest ==
  [router |-> "", method |-> "", path |-> <<>>, tokenOk |-> FALSE,
   role |-> "customer", inputOk |-> FALSE]

NoHttp == [request |-> NoRequest, route |-> 0, at |-> 0, ran |-> <<>>,
           status |-> "none"]

\* A slot of the products collection holding no product.
NoProduct ==
  [exists |-> FALSE, vendor |-> 0, name |-> "", isDeleted |-> FALSE,
   isActive |-> FALSE]

NoCall ==
  [op |-> "none", user |-> [id |-> 0, role |-> "customer"], id |-> 0,
   before |-> NoProduct, status |-> 0, message |-> "", results |-> {}]

NoCatalog == [products |-> [i \in 1..NProducts |-> NoProduct], call |-> NoCall]

NoClient == [hook |-> "", input |-> <<>>, error |-> 0, message |-> "", sent |-> <<>>]

\* No error: a fetch that has not failed.
NoError == [isApiError |-> FALSE, status |-> 0]

\* The profile query before its first fetch.
NoQuery ==
  [status |-> "idle", failureCount |-> 0, failureReason |-> NoError,
   error |-> NoError, fetches |-> 0]

\* An order as the order flow leaves it before any payment.
NewOrder == [paymentStatus |-> "pending", orderStatus |-> "pending"]

NoJob == [op |-> "idle", via |-> "", request |-> <<>>, payment |-> 0, todo |-> {}]

NoAnswer == [op |-> "none", status |-> 0, message |-> "", event |-> ""]

\* The orders, no payment yet, no payment request or webhook in progress.
NoPay ==
  [orders |-> [o \in 1..NOrders |-> NewOrder], payments |-> <<>>,
   work |-> [p \in 1..NProcs |-> NoJob], issued |-> 0, answer |-> NoAnswer]

NoGate == [this |-> 0, target |-> 0, role |-> "customer", method |-> "none",
           result |-> FALSE]

VARIABLES
  users,    \* the users collection: Ids -> document (exists = FALSE: no user)
  now,      \* the clock
  req,      \* Procs -> the request a worker is handling and the document it loaded
  held,     \* an access token a client holds, and whether a bump was saved since
  spent,    \* a consumed reset token and a consumed verification token, each
            \* with "a token of the same value has been issued again since"
  pwSet,    \* Ids -> the password last set by registration or resetPassword
  last,     \* the response of the step just taken
  gate,     \* a permission method's call: its receiver, arguments and result
  http,     \* an HTTP request on its way through the middleware of its route
  catalog,  \* the products collection and the last product request with its answer
  client,   \* the browser client: the mutation last run and the requests it sent
  query,    \* the profile query of the client: its status and failure count
  pay       \* the orders and payments collections and the webhook requests in flight

vars == <<users, now, req, held, spent, pwSet, last, gate, http, catalog, client, query, pay>>

\* ------------------------------------------------------------ store queries
\* The paths of the user document a request's handler reads or assigns.
Paths(op) ==
  {"exists", "id", "email", "role"} \cup
  CASE op = "login" -> {"password", "tokenVersion", "refreshToken"}
    [] op = "refresh" -> {"tokenVersion", "refreshToken"}
    [] op = "logout" -> {"refreshToken"}
    [] op = "invalidate" -> {"tokenVersion"}
    [] op = "deactivate" -> {"isActive", "tokenVersion"}
    [] op = "activate" -> {"isActive"}
    [] op = "forgot" -> {"resetPasswordToken", "resetPasswordExpires"}
    [] op = "reset" -> {"password", "resetPasswordToken", "resetPasswordExpires"}
    [] op \in {"sendVerification", "resendVerification"} ->
         {"emailVerificationToken", "emailVerificationExpires"}
    [] op = "verify" -> {"isEmailVerified", "emailVerificationToken",
                         "emailVerificationExpires"}
    [] OTHER -> {}

\* The document a query hands to the request: a copy of the stored one. A
\* path the handler neither reads nor assigns is the same in the loaded and
\* in the saved document, so save() never writes it; the copy keeps the
\* other paths only.
Loaded(op, u) ==
  [f \in DOMAIN u |-> IF f \in Paths(op) THEN u[f] ELSE NoUser[f]]

\* The document as the handler of request op holds it: the paths of the
\* handler from its copy, the other paths as stored.
Document(op, doc, stored) ==
  [f \in DOMAIN stored |-> IF f \in Paths(op) THEN doc[f] ELSE stored[f]]

\* The paths of a user document that may hold no value.
OptionalPaths ==
  {"password", "emailVerificationToken", "emailVerificationExpires",
   "resetPasswordToken", "resetPasswordExpires", "refreshToken"}

\* document.toObject(): the paths that hold a value.
ToObject(doc) ==
  [f \in {g \in DOMAIN doc \ {"exists"} :
            g \in OptionalPaths => doc[g] # NoUser[g]} |-> doc[f]]

\* userSchema.methods.getPublicProfile
GetPublicProfile(doc) ==
  LET user == ToObject(doc) IN
  [f \in DOMAIN user \ {"password", "refreshToken"} |-> user[f]]

\* Model.findOne(filter), given the ids the filter matches: the id of a
\* matching document, 0 when there is none.
FindOne(matching) ==
  IF \E i \in matching : users[i].exists
  THEN CHOOSE i \in matching : users[i].exists
  ELSE 0

\* userSchema.statics.findByEmail
FindByEmail(e) ==
  FindOne({i \in Ids : users[i].email = NormalizeEmail(e)})

\* userSchema.methods.checkPassword
CheckPassword(doc, password) == BcryptCompare(password, doc.password)

\* userSchema.statics.findByEmailAndValidateCredential: the error it throws,
\* "" when it returns the user.
FindByEmailAndValidateCredential(e, password) ==
  LET i == FindByEmail(e) IN
  IF i = 0 THEN "Invalid credentials"
  ELSE LET c == CheckPassword(users[i], password) IN
       IF c = "throws" THEN "data and hash arguments required"
       ELSE IF c = "false" THEN "Invalid credentials" ELSE ""

\* --------------------------------------------------------------- documents
\* userSchema.methods.generateVerificationEmailToken
GenerateVerificationEmailToken(doc, t) ==
  [doc EXCEPT
     !.emailVerificationToken =
        JwtSign(<<doc.id, doc.email>>, "JWT_SECRET", VerifyTTL, t),
     !.emailVerificationExpires = t + VerifyTTL]

\* userSchema.pre('save'): a new, unverified document without a verification
\* token gets one.
PreSaveVerification(doc, isNew, t) ==
  IF isNew /\ ~doc.isEmailVerified /\ doc.emailVerificationToken = NoToken
  THEN GenerateVerificationEmailToken(doc, t)
  ELSE doc

\* userSchema.pre('save'): the password is hashed when it was modified and is
\* not empty.
PreSavePassword(doc, loaded) ==
  IF doc.password = loaded.password \/ doc.password = NoPassword
  THEN doc
  ELSE [doc EXCEPT !.password = BcryptHash(doc.password)]

\* document.save() of a loaded document: the paths assigned a value other
\* than the loaded one are the modified ones; the pre-save hooks run, and the
\* modified paths are written over the stored document; the other stored
\* paths are left as they are.
SaveDoc(stored, loaded, doc, t) ==
  LET d == PreSavePassword(PreSaveVerification(doc, FALSE, t), loaded) IN
  [f \in DOMAIN stored |-> IF doc[f] # loaded[f] THEN d[f] ELSE stored[f]]

\* Model.create(data): a new document with the schema's defaults.
CreateDoc(i, e, password, role, t) ==
  LET d == [NoUser EXCEPT !.exists = TRUE, !.id = i,
                          !.email = NormalizeEmail(e), !.role = role,
                          !.password = password, !.isActive = TRUE]
  IN PreSavePassword(PreSaveVerification(d, TRUE, t), NoUser)

\* generateToken with the tokenVersion left at the schema's default.
GenerateTokenDefaultVersion(doc, t) ==
  LET payload == <<doc.id, doc.email, doc.role, 1>> IN
  [accessToken |-> JwtSign(payload, "JWT_SECRET", AccessTTL, t),
   refreshToken |-> JwtSign(payload, "REFRESH_TOKEN", RefreshTTL, t)]

\* userSchema.methods.generateToken
GenerateToken(doc, t) ==
  LET payload == <<doc.id, doc.email, doc.role, doc.tokenVersion>> IN
  [accessToken |-> JwtSign(payload, "JWT_SECRET", AccessTTL, t),
   refreshToken |-> JwtSign(payload, "REFRESH_TOKEN", RefreshTTL, t)]

\* Session middleware (authenticate): signature and expiry, then the user is
\* loaded and the token's tokenVersion compared with the stored one.
SessionCheck(token) ==
  /\ Len(token) = 7
  /\ token[1] = "JWT_SECRET"
  /\ ~JwtExpired(token, now)
  /\ token[2] \in Ids
  /\ users[token[2]].exists
  /\ token[5] = users[token[2]].tokenVersion

\* ------------------------------------------------------------------ actions
NoHeld == [token |-> NoToken, bumped |-> FALSE]

NoSpent == [reset |-> [token |-> NoToken, again |-> FALSE],
            verify |-> [token |-> NoToken, again |-> FALSE]]

\* An access token is handed to a caller. Which of the tokens handed out the
\* model follows is arbitrary: the client keeps the new one or the one it had.
Hand(access) ==
  \/ held' = [token |-> access, bumped |-> FALSE]
  \/ held' = held

Resp(op, i, err) == [NoResp EXCEPT !.op = op, !.id = i, !.err = err]

FreeId == IF \E i \in Ids : ~users[i].exists
          THEN CHOOSE i \in Ids : ~users[i].exists ELSE 0

\* userSchema.statics.alreadyExists, the first half of createIfNotExists and
\* of createVendor
AlreadyExists(p, op, e, password) ==
  /\ UNCHANGED <<spent, pwSet>>
  /\ req[p].op = "idle"
  /\ IF FindByEmail(e) # 0
     THEN /\ last' = Resp(op, 0, "Email already exists")
          /\ UNCHANGED req
     ELSE /\ req' = [req EXCEPT ![p] =
                       [Idle EXCEPT !.op = op, !.arg = <<e, password>>]]
          /\ last' = NoResp
  /\ UNCHANGED <<users, now, held, gate, http, catalog, client, query, pay>>

\* this.create(...), the second half of createIfNotExists and of
\* createVendor. The unique index on email rejects a second document with
\* the same email.
Create(p, op, role) ==
  /\ UNCHANGED spent
  /\ req[p].op = op
  /\ LET e == req[p].arg[1]
         password == req[p].arg[2]
     IN IF FindByEmail(e) # 0
        THEN /\ last' = Resp(op, 0, "E11000 duplicate key error")
             /\ UNCHANGED <<users, pwSet>>
        ELSE /\ FreeId # 0
             /\ users' = [users EXCEPT ![FreeId] =
                            CreateDoc(FreeId, e, password, role, now)]
             /\ pwSet' = [pwSet EXCEPT ![FreeId] = password]
             /\ last' = Resp(op, FreeId, "")
  /\ req' = [req EXCEPT ![p] = Idle]
  /\ UNCHANGED <<now, held, gate, http, catalog, client, query, pay>>

\* userSchema.statics.createIfNotExists
RegisterCheck(p, e, password) == AlreadyExists(p, "register", e, password)

RegisterCreate(p) == Create(p, "register", "customer")

\* userSchema.statics.createVendor
VendorCheck(p, e, password) == AlreadyExists(p, "vendorRegister", e, password)

VendorCreate(p) == Create(p, "vendorRegister", "vendor")

\* Login, first half: findByEmailAndValidateCredential
LoginFind(p, e, password) ==
  /\ UNCHANGED <<spent, pwSet>>
  /\ req[p].op = "idle"
  /\ LET err == FindByEmailAndValidateCredential(e, password) IN
     IF err # ""
     THEN /\ last' = Resp("login", 0, err)
          /\ UNCHANGED req
     ELSE /\ req' = [req EXCEPT ![p] =
                       [Idle EXCEPT !.op = "login", !.id = FindByEmail(e),
                                    !.doc = Loaded("login", users[FindByEmail(e)])]]
          /\ last' = NoResp
  /\ UNCHANGED <<users, now, held, gate, http, catalog, client, query, pay>>

\* userSchema.methods.loginWithTokens, then the caller saves the user
LoginWithTokens(p) ==
  /\ UNCHANGED <<spent, pwSet>>
  /\ req[p].op = "login"
  /\ LET loaded == req[p].doc
         tk == GenerateToken(loaded, now)
         doc == [loaded EXCEPT !.refreshToken = tk.refreshToken]
         i == req[p].id
     IN /\ users' = [users EXCEPT ![i] = SaveDoc(users[i], loaded, doc, now)]
        /\ Hand(tk.accessToken)
        /\ last' = [Resp("login", i, "")
                      EXCEPT !.access = tk.accessToken,
                             !.refresh = tk.refreshToken,
                             !.views = <<ToObject(Document("login", doc, users[i]))>>]
  /\ req' = [req EXCEPT ![p] = Idle]
  /\ UNCHANGED <<now, gate, http, catalog, client, query, pay>>

\* userSchema.statics.findByIdAndValidate: a request loads the user it is about.
FindByIdAndValidate(p, op, i) ==
  /\ UNCHANGED <<spent, pwSet>>
  /\ req[p].op = "idle"
  /\ IF ~users[i].exists
     THEN /\ last' = Resp(op, i, "User not found")
          /\ UNCHANGED req
     ELSE /\ req' = [req EXCEPT ![p] =
                       [Idle EXCEPT !.op = op, !.id = i, !.doc = Loaded(op, users[i])]]
          /\ last' = NoResp
  /\ UNCHANGED <<users, now, held, gate, http, catalog, client, query, pay>>

\* The refresh token issued together with an access token.
RefreshOf(access) ==
  JwtSign(<<access[2], access[3], access[4], access[5]>>, "REFRESH_TOKEN",
          RefreshTTL, access[6])

\* The refresh tokens a client may present: the ones stored, and the one
\* issued together with the access token it holds.
KnownRefreshTokens ==
  ({users[i].refreshToken : i \in Ids} \cup
   (IF held.token = NoToken THEN {} ELSE {RefreshOf(held.token)})) \ {NoToken}

\* userSchema.statics.findByRefreshToken
FindByRefreshToken(p, rt) ==
  /\ UNCHANGED <<spent, pwSet>>
  /\ req[p].op = "idle"
  /\ LET i == FindOne({j \in Ids : users[j].refreshToken = rt})
     IN IF i = 0
        THEN /\ last' = Resp("refresh", 0, "Invalid refresh token")
             /\ UNCHANGED req
        ELSE /\ req' = [req EXCEPT ![p] =
                          [Idle EXCEPT !.op = "refresh", !.id = i,
                                       !.doc = Loaded("refresh", users[i])]]
             /\ last' = NoResp
  /\ UNCHANGED <<users, now, held, gate, http, catalog, client, query, pay>>

\* userSchema.methods.refreshTokens, then the caller saves the user
RefreshTokens(p) ==
  /\ UNCHANGED <<spent, pwSet>>
  /\ req[p].op = "refresh"
  /\ LET loaded == req[p].doc
         tk == GenerateToken(loaded, now)
         doc == [loaded EXCEPT !.refreshToken = tk.refreshToken]
         i == req[p].id
     IN /\ users' = [users EXCEPT ![i] = SaveDoc(users[i], loaded, doc, now)]
        /\ Hand(tk.accessToken)
        /\ last' = [Resp("refresh", i, "") EXCEPT !.access = tk.accessToken,
                                                   !.refresh = tk.refreshToken]
  /\ req' = [req EXCEPT ![p] = Idle]
  /\ UNCHANGED <<now, gate, http, catalog, client, query, pay>>

\* userSchema.methods.clearRefreshToken
ClearRefreshToken(p) ==
  /\ UNCHANGED <<spent, pwSet>>
  /\ req[p].op = "logout"
  /\ LET loaded == req[p].doc
         doc == [loaded EXCEPT !.refreshToken = NoToken]
         i == req[p].id
     IN /\ users' = [users EXCEPT ![i] = SaveDoc(users[i], loaded, doc, now)]
        /\ last' = Resp("logout", i, "")
  /\ req' = [req EXCEPT ![p] = Idle]
  /\ UNCHANGED <<now, held, gate, http, catalog, client, query, pay>>

\* A bump of user i's tokenVersion was saved: the token a client holds, if it
\* is one of user i, was issued before it.
MarkBumped(i) ==
  IF held.token # NoToken /\ held.token[2] = i
  THEN [held EXCEPT !.bumped = TRUE] ELSE held

\* userSchema.methods.invalidateAllTokens
InvalidateAllTokens(p) ==
  /\ UNCHANGED <<spent, pwSet>>
  /\ req[p].op = "invalidate"
  /\ LET loaded == req[p].doc
         doc == [loaded EXCEPT !.tokenVersion = loaded.tokenVersion + 1]
         i == req[p].id
     IN /\ users' = [users EXCEPT ![i] = SaveDoc(users[i], loaded, doc, now)]
        /\ held' = MarkBumped(i)
        /\ last' = Resp("invalidate", i, "")
  /\ req' = [req EXCEPT ![p] = Idle]
  /\ UNCHANGED <<now, gate, http, catalog, client, query, pay>>

\* userSchema.methods.deactivate: the mail is awaited before the save, so a
\* failing EmailService ends the request without saving.
Deactivate(p, mailOk) ==
  /\ UNCHANGED <<spent, pwSet>>
  /\ req[p].op = "deactivate"
  /\ LET loaded == req[p].doc
         doc == [loaded EXCEPT !.isActive = FALSE,
                               !.tokenVersion = loaded.tokenVersion + 1]
         i == req[p].id
     IN IF mailOk
        THEN /\ users' = [users EXCEPT ![i] = SaveDoc(users[i], loaded, doc, now)]
             /\ held' = MarkBumped(i)
             /\ last' = Resp("deactivate", i, "")
        ELSE /\ last' = Resp("deactivate", i, "EmailService failed")
             /\ UNCHANGED <<users, held>>
  /\ req' = [req EXCEPT ![p] = Idle]
  /\ UNCHANGED <<now, gate, http, catalog, client, query, pay>>

\* userSchema.methods.activate
Activate(p, mailOk) ==
  /\ UNCHANGED <<spent, pwSet>>
  /\ req[p].op = "activate"
  /\ LET loaded == req[p].doc
         doc == [loaded EXCEPT !.isActive = TRUE]
         i == req[p].id
     IN IF mailOk
        THEN /\ users' = [users EXCEPT ![i] = SaveDoc(users[i], loaded, doc, now)]
             /\ last' = Resp("activate", i, "")
        ELSE /\ last' = Resp("activate", i, "EmailService failed")
             /\ UNCHANGED users
  /\ req' = [req EXCEPT ![p] = Idle]
  /\ UNCHANGED <<now, held, gate, http, catalog, client, query, pay>>

\* The requests that begin by loading the user by id.
LogoutLoad(p, i) == FindByIdAndValidate(p, "logout", i)

InvalidateLoad(p, i) ==
  /\ users[i].tokenVersion < MaxVersion
  /\ FindByIdAndValidate(p, "invalidate", i)

DeactivateLoad(p, i) ==
  /\ users[i].tokenVersion < MaxVersion
  /\ FindByIdAndValidate(p, "deactivate", i)

ActivateLoad(p, i) == FindByIdAndValidate(p, "activate", i)

\* ----------------------------------------------- password reset, verification
\* The token values a caller may present: every value the server can sign
\* for a stored user.
ResetTokenValues ==
  {JwtSign(<<i, users[i].email>>, "JWT_SECRET", ResetTTL, t) :
     i \in {j \in Ids : users[j].exists}, t \in Times}

VerifyTokenValues ==
  {JwtSign(<<i, users[i].email>>, "JWT_SECRET", VerifyTTL, t) :
     i \in {j \in Ids : users[j].exists}, t \in Times}

\* forgot-password, first half: findByEmail
ForgotFind(p, e) ==
  /\ UNCHANGED <<users, now, held, spent, pwSet, gate, http, catalog, client, query, pay>>
  /\ req[p].op = "idle"
  /\ IF FindByEmail(e) = 0
     THEN /\ last' = Resp("forgot", 0, "User not found")
          /\ UNCHANGED req
     ELSE /\ req' = [req EXCEPT ![p] =
                       [Idle EXCEPT !.op = "forgot", !.id = FindByEmail(e),
                                    !.doc = Loaded("forgot", users[FindByEmail(e)])]]
          /\ last' = NoResp

\* userSchema.methods.createPasswordResetToken on a document
PasswordResetToken(doc, t) ==
  [doc EXCEPT
     !.resetPasswordToken =
        JwtSign(<<doc.id, doc.email>>, "JWT_SECRET", ResetTTL, t),
     !.resetPasswordExpires = t + ResetTTL]

\* A token is issued: when its value is that of the consumed token the model
\* follows, that value names a new, unconsumed token again.
Reissued(kind, token) ==
  IF spent[kind].token = token
  THEN [spent EXCEPT ![kind].again = TRUE] ELSE spent

\* forgot-password, second half: createPasswordResetToken, the caller's
\* save, then processPasswordReset mails the token.
CreatePasswordResetToken(p, mailOk) ==
  /\ UNCHANGED <<now, held, pwSet, gate, http, catalog, client, query, pay>>
  /\ req[p].op = "forgot"
  /\ LET loaded == req[p].doc
         doc == PasswordResetToken(loaded, now)
         i == req[p].id
     IN /\ users' = [users EXCEPT ![i] = SaveDoc(users[i], loaded, doc, now)]
        /\ spent' = Reissued("reset", doc.resetPasswordToken)
        /\ last' = Resp("forgot", i, IF mailOk THEN "" ELSE "EmailService failed")
  /\ req' = [req EXCEPT ![p] = Idle]

\* The query of findResetToken with $gte in place of $gt.
ResetTokenMatchesGte(u, token, t) ==
  /\ u.resetPasswordToken = token
  /\ u.resetPasswordExpires >= t

\* The query of findResetToken: the stored token equals the one presented
\* and the stored expiry is later than Date.now().
ResetTokenMatches(u, token, t) ==
  /\ u.resetPasswordToken = token
  /\ u.resetPasswordExpires > t

\* userSchema.statics.findResetToken
FindResetToken(token) ==
  FindOne({i \in Ids : ResetTokenMatches(users[i], token, now)})

\* reset-password, first half: findResetToken
ResetFind(p, token, newPassword) ==
  /\ UNCHANGED <<users, now, held, spent, pwSet, gate, http, catalog, client, query, pay>>
  /\ req[p].op = "idle"
  /\ LET i == FindResetToken(token) IN
     IF i = 0
     THEN /\ last' = [Resp("reset", 0, "Invalid or expired token")
                        EXCEPT !.tok = token]
          /\ UNCHANGED req
     ELSE /\ req' = [req EXCEPT ![p] =
                       [Idle EXCEPT !.op = "reset", !.id = i,
                                    !.doc = Loaded("reset", users[i]),
                                    !.arg = newPassword]]
          /\ last' = NoResp

\* A consumed token: the model follows one of them, any one.
Spend(kind, token) ==
  \/ spent' = [spent EXCEPT ![kind] = [token |-> token, again |-> FALSE]]
  \/ spent' = spent

\* resetPassword that leaves the reset token and its expiry stored.
ResetPasswordKeepToken(doc, newPassword) ==
  [doc EXCEPT !.password = newPassword]

\* userSchema.methods.resetPassword on a document
ResetPasswordDoc(doc, newPassword) ==
  [doc EXCEPT !.password = newPassword,
              !.resetPasswordToken = NoToken,
              !.resetPasswordExpires = NoDate]

\* reset-password, second half: userSchema.methods.resetPassword
ResetPassword(p) ==
  /\ UNCHANGED <<now, held, gate, http, catalog, client, query, pay>>
  /\ req[p].op = "reset"
  /\ LET loaded == req[p].doc
         doc == ResetPasswordDoc(loaded, req[p].arg)
         i == req[p].id
     IN /\ users' = [users EXCEPT ![i] = SaveDoc(users[i], loaded, doc, now)]
        /\ pwSet' = [pwSet EXCEPT ![i] = req[p].arg]
        /\ Spend("reset", loaded.resetPasswordToken)
        /\ last' = [Resp("reset", i, "") EXCEPT !.tok = loaded.resetPasswordToken]
  /\ req' = [req EXCEPT ![p] = Idle]

\* The requests that send a verification mail load the user by id.
SendVerificationLoad(p, i) == FindByIdAndValidate(p, "sendVerification", i)

ResendVerificationLoad(p, i) == FindByIdAndValidate(p, "resendVerification", i)

\* userSchema.methods.sendVerificationEmail: the token is saved, then mailed.
SendVerificationEmail(p, mailOk) ==
  /\ UNCHANGED <<now, held, pwSet, gate, http, catalog, client, query, pay>>
  /\ req[p].op = "sendVerification"
  /\ LET loaded == req[p].doc
         doc == GenerateVerificationEmailToken(loaded, now)
         i == req[p].id
     IN /\ users' = [users EXCEPT ![i] = SaveDoc(users[i], loaded, doc, now)]
        /\ spent' = Reissued("verify", doc.emailVerificationToken)
        /\ last' = Resp("sendVerification", i,
                        IF mailOk THEN "" ELSE "EmailService failed")
  /\ req' = [req EXCEPT ![p] = Idle]

\* userSchema.methods.sendResendVerificationEmail
SendResendVerificationEmail(p, mailOk) ==
  /\ UNCHANGED <<now, held, pwSet, gate, http, catalog, client, query, pay>>
  /\ req[p].op = "resendVerification"
  /\ LET loaded == req[p].doc
         doc == GenerateVerificationEmailToken(loaded, now)
         i == req[p].id
     IN /\ users' = [users EXCEPT ![i] = SaveDoc(users[i], loaded, doc, now)]
        /\ spent' = Reissued("verify", doc.emailVerificationToken)
        /\ last' = Resp("resendVerification", i,
                        IF mailOk THEN "" ELSE "EmailService failed")
  /\ req' = [req EXCEPT ![p] = Idle]

\* The query of findByVerificationToken: the user the token names stores this
\* token, with an expiry later than Date.now().
VerificationTokenMatches(u, token, t) ==
  /\ u.id = token[2]
  /\ u.emailVerificationToken = token
  /\ u.emailVerificationExpires > t

\* userSchema.statics.findByVerificationToken: the error thrown, "" when a
\* user is returned. The error thrown inside the try block for "no user" is
\* caught by the catch block of the same function; its name is neither
\* TokenExpiredError nor JsonWebTokenError, so the last throw replaces it.
FindByVerificationTokenError(token) ==
  LET m == {i \in Ids : VerificationTokenMatches(users[i], token, now)} IN
  IF JwtExpired(token, now) THEN "Verification token has expired"
  ELSE IF token[1] # "JWT_SECRET" THEN "Invalid verification token"
  ELSE IF FindOne(m) = 0 THEN "Invalid verification token"
  ELSE ""

FindByVerificationToken(token) ==
  LET m == {i \in Ids : VerificationTokenMatches(users[i], token, now)} IN
  IF FindByVerificationTokenError(token) = "" THEN FindOne(m) ELSE 0

\* verify-email, first half: findByVerificationToken
VerifyFind(p, token) ==
  /\ UNCHANGED <<users, now, held, spent, pwSet, gate, http, catalog, client, query, pay>>
  /\ req[p].op = "idle"
  /\ LET i == FindByVerificationToken(token) IN
     IF i = 0
     THEN /\ last' = [Resp("verify", 0, FindByVerificationTokenError(token))
                        EXCEPT !.tok = token]
          /\ UNCHANGED req
     ELSE /\ req' = [req EXCEPT ![p] =
                       [Idle EXCEPT !.op = "verify", !.id = i,
                                    !.doc = Loaded("verify", users[i])]]
          /\ last' = NoResp

\* userSchema.methods.verifyEmail on a document
VerifyEmailDoc(doc) ==
  [doc EXCEPT !.isEmailVerified = TRUE,
              !.emailVerificationToken = NoToken,
              !.emailVerificationExpires = NoDate]

\* verify-email, second half: userSchema.methods.verifyEmail
VerifyEmail(p) ==
  /\ UNCHANGED <<now, held, pwSet, gate, http, catalog, client, query, pay>>
  /\ req[p].op = "verify"
  /\ LET loaded == req[p].doc
         doc == VerifyEmailDoc(loaded)
         i == req[p].id
     IN /\ users' = [users EXCEPT ![i] = SaveDoc(users[i], loaded, doc, now)]
        /\ Spend("verify", loaded.emailVerificationToken)
        /\ last' = [Resp("verify", i, "")
                      EXCEPT !.tok = loaded.emailVerificationToken]
  /\ req' = [req EXCEPT ![p] = Idle]

\* ----------------------------------------------------------- user views
\* The ids in S, the greatest first (sort { createdAt: -1 }: ids are given
\* out in the order of creation).
RECURSIVE Newest(_)
Newest(S) ==
  IF S = {} THEN <<>>
  ELSE LET m == CHOOSE i \in S : \A j \in S : j <= i
       IN <<m>> \o Newest(S \ {m})

\* The projection '-password -refreshToken' of a query.
Projected(doc) ==
  LET user == ToObject(doc) IN
  [f \in DOMAIN user \ {"password", "refreshToken"} |-> user[f]]

\* userSchema.statics.findWithPagination; the filter is on role ("" = none).
FindWithPagination(role, page, limit) ==
  LET found == Newest({i \in Ids : /\ users[i].exists
                                    /\ role # "" => users[i].role = role})
      skip == (page - 1) * limit
      to == IF skip + limit < Len(found) THEN skip + limit ELSE Len(found)
      shown == SubSeq(found, skip + 1, to)
  IN [users |-> [k \in 1..Len(shown) |-> Projected(users[shown[k]])],
      total |-> Len(found)]

\* GET /users: the page of users is the response.
ListUsers(role, page, limit) ==
  /\ last' = [Resp("list", 0, "")
                EXCEPT !.views = FindWithPagination(role, page, limit).users]
  /\ UNCHANGED <<users, now, req, held, spent, pwSet, gate, http, catalog, client, query, pay>>

\* GET /profile: the public profile of the stored user is the response.
GetProfile(i) ==
  /\ users[i].exists
  /\ last' = [Resp("profile", i, "")
                EXCEPT !.views = <<GetPublicProfile(users[i])>>]
  /\ UNCHANGED <<users, now, req, held, spent, pwSet, gate, http, catalog, client, query, pay>>

\* ------------------------------------------------------------------ routes
\* The middleware of a route, as the route files name them.
ValidationMw(schema) == <<"validation", schema>>
AuthenticateMw == <<"authenticate">>
CheckRoleMw(role, action) == <<"checkRole", role, action>>
CheckRoleByTypeMw == <<"checkRoleByType", "read">>
UploadMw == <<"upload">>
Handler(name) == <<"handler", name>>

\* A declaration that leaves the role gate out of the chain.
RouteUngated(method, path, chain) ==
  [method |-> method, path |-> path,
   chain |-> SelectSeq(chain, LAMBDA mw : mw[1] # "checkRole")]

Route(method, path, chain) == [method |-> method, path |-> path, chain |-> chain]

\* routes/user.routes.js, in the order of declaration
UserRoutes ==
  << Route("POST", <<"register">>,
           <<ValidationMw("register"), Handler("registerUser")>>),
     Route("POST", <<"vendor-register">>,
           <<ValidationMw("register"), Handler("registerVendorUser")>>),
     Route("POST", <<"login">>,
           <<ValidationMw("login"), Handler("loginUser")>>),
     Route("GET", <<"google-signup">>, <<Handler("googleAuth")>>),
     Route("GET", <<"google", "callback">>, <<Handler("googleCallback")>>),
     Route("POST", <<"refresh-token">>, <<Handler("refreshToken")>>),
     Route("POST", <<"logout">>, <<Handler("logOut")>>),
     Route("POST", <<"forgot-password">>, <<Handler("forgotPassword")>>),
     Route("POST", <<"reset-password", ":token">>, <<Handler("resetPassword")>>),
     Route("GET", <<"verify-email", ":token">>, <<Handler("emailVerification")>>),
     Route("GET", <<"profile">>, <<AuthenticateMw, Handler("getUserProfile")>>),
     Route("POST", <<"users", "avatar">>,
           <<AuthenticateMw, UploadMw, Handler("uploadAvatar")>>),
     Route("DELETE", <<"delete-avatar">>,
           <<AuthenticateMw, Handler("deleteAvatar")>>),
     Route("POST", <<"resend-verification">>,
           <<AuthenticateMw, Handler("resendEmailVerification")>>),
     Route("POST", <<"heartbeat">>,
           <<AuthenticateMw, Handler("updateUserHeartbeat")>>),
     Route("POST", <<"online">>, <<AuthenticateMw, Handler("setUserOnline")>>),
     Route("POST", <<"offline">>, <<AuthenticateMw, Handler("setUserOffline")>>),
     Route("PATCH", <<"users", ":id", "deactivate">>,
           <<AuthenticateMw, Handler("deactivateUser")>>),
     Route("GET", <<"users">>,
           <<AuthenticateMw, CheckRoleMw("admin", "read"), Handler("getAllUsers")>>),
     Route("GET", <<"online-users">>,
           <<AuthenticateMw, CheckRoleMw("admin", "read"),
             Handler("getOnlineUsers")>>),
     Route("GET", <<"users", ":id", "status">>,
           <<AuthenticateMw, Handler("getUserStatus")>>),
     Route("POST", <<"users", ":id", "invalidate-tokens">>,
           <<AuthenticateMw, Handler("invalidateUserTokens")>>),
     Route("PATCH", <<"users", ":id", "activate">>,
           <<AuthenticateMw, CheckRoleMw("admin", "edit"), Handler("activateUser")>>),
     Route("PATCH", <<"verify-user", ":id">>,
           <<AuthenticateMw, CheckRoleMw("admin", "edit"),
             Handler("verifyUserByAdmin")>>),
     Route("GET", <<"users", ":id">>, <<AuthenticateMw, Handler("getUserById")>>),
     Route("PUT", <<"users", ":id">>,
           <<AuthenticateMw, Handler("updateUserProfile")>>),
     Route("DELETE", <<"users", ":id">>,
           <<AuthenticateMw, CheckRoleMw("admin", "delete"), Handler("deleteUser")>>) >>

\* routes/vendor.routes.js, in the order of declaration
VendorRoutes ==
  << Route("GET", <<>>, <<Handler("getAllVendors")>>),
     Route("GET", <<"top">>, <<Handler("getTopVendors")>>),
     Route("GET", <<"profile", "completion">>,
           <<AuthenticateMw, CheckRoleMw("vendor", "read"),
             Handler("getProfileCompletion")>>),
     Route("GET", <<"profile">>,
           <<AuthenticateMw, CheckRoleMw("vendor", "read"),
             Handler("getVendorProfile")>>),
     Route("POST", <<"profile">>,
           <<AuthenticateMw, CheckRoleMw("vendor", "create"), UploadMw,
             Handler("updateVendorData")>>),
     Route("PUT", <<"profile">>,
           <<AuthenticateMw, CheckRoleMw("vendor", "edit"),
             Handler("updateVendorData")>>),
     Route("PUT", <<"settings", ":settingType">>,
           <<AuthenticateMw, CheckRoleMw("vendor", "edit"), UploadMw,
             Handler("updateSettings")>>),
     Route("POST", <<"documents">>,
           <<AuthenticateMw, CheckRoleMw("vendor", "create"),
             Handler("manageDocuments")>>),
     Route("DELETE", <<"documents", ":documentId">>,
           <<AuthenticateMw, CheckRoleMw("vendor", "delete"),
             Handler("manageDocuments")>>),
     Route("GET", <<"admin", "list">>,
           <<AuthenticateMw, CheckRoleMw("admin", "read"),
             Handler("getVendorsForAdmin")>>),
     Route("PUT", <<"toggle-status">>,
           <<AuthenticateMw, CheckRoleMw("vendor", "edit"),
             Handler("toggleAccountStatus")>>),
     Route("PUT", <<"toggle-status", ":id">>,
           <<AuthenticateMw, CheckRoleMw("admin", "edit"),
             Handler("toggleAccountStatus")>>),
     Route("PUT", <<"admin", "verify", ":id">>,
           <<AuthenticateMw, CheckRoleMw("admin", "edit"),
             Handler("updateVendorVerificationStatus")>>),
     Route("GET", <<"stats", ":type">>,
           <<AuthenticateMw, CheckRoleByTypeMw, Handler("getStatistics")>>),
     Route("GET", <<":id">>, <<Handler("getVendorById")>>) >>

Routers == {"auth", "vendors"}

Routes(router) == IF router = "auth" THEN UserRoutes ELSE VendorRoutes

\* A segment that starts with a colon is a parameter and matches any segment.
Params == {":token", ":id", ":settingType", ":documentId", ":type"}

Matches(pattern, path) ==
  /\ Len(pattern) = Len(path)
  /\ \A k \in 1..Len(pattern) : pattern[k] \in Params \/ pattern[k] = path[k]

\* Express runs the first declared route whose method and path match.
Dispatch(router, method, path) ==
  LET rs == Routes(router)
      M == {k \in 1..Len(rs) : rs[k].method = method /\ Matches(rs[k].path, path)}
  IN IF M = {} THEN 0 ELSE CHOOSE k \in M : \A j \in M : k <= j

\* The role gate decides on the caller's role, the required role and the action.
CheckRole(required, action, role) == role = required

\* The role the statistics route requires, decided from its :type parameter.
RequiredRole(path) == IF path[2] = "admin" THEN "admin" ELSE "vendor"

\* Whether a middleware of a chain calls next() for a request.
Accepts(mw, request) ==
  CASE mw[1] = "authenticate" -> request.tokenOk
    [] mw[1] = "checkRole" -> CheckRole(mw[2], mw[3], request.role)
    [] mw[1] = "checkRoleByType" ->
         CheckRole(RequiredRole(request.path), mw[2], request.role)
    [] mw[1] = "validation" -> request.inputOk
    [] OTHER -> TRUE

Chain == Routes(http.request.router)[http.route].chain

Mw == Chain[http.at]

\* A router receives a request; it carries no state over from earlier ones.
Receive(request) ==
  /\ http = NoHttp
  /\ LET k == Dispatch(request.router, request.method, request.path) IN
       http' = [request |-> request, route |-> k, at |-> IF k = 0 THEN 0 ELSE 1,
                ran |-> <<>>, status |-> IF k = 0 THEN "404" ELSE "running"]
  /\ UNCHANGED <<users, now, req, held, spent, pwSet, last, gate, catalog, client, query, pay>>

\* One middleware of the chain: next() moves on, a rejection answers.
Pass(code) ==
  http' = IF Accepts(Mw, http.request)
            THEN [http EXCEPT !.at = @ + 1, !.ran = Append(@, Mw)]
            ELSE [http EXCEPT !.status = code]

Authenticate ==
  /\ http.status = "running"
  /\ Mw[1] = "authenticate"
  /\ Pass("401")
  /\ UNCHANGED <<users, now, req, held, spent, pwSet, last, gate, catalog, client, query, pay>>

RoleGate ==
  /\ http.status = "running"
  /\ Mw[1] \in {"checkRole", "checkRoleByType"}
  /\ Pass("403")
  /\ UNCHANGED <<users, now, req, held, spent, pwSet, last, gate, catalog, client, query, pay>>

Validation ==
  /\ http.status = "running"
  /\ Mw[1] = "validation"
  /\ Pass("400")
  /\ UNCHANGED <<users, now, req, held, spent, pwSet, last, gate, catalog, client, query, pay>>

\* The upload middleware either stores the files or answers the upload error.
Upload(ok) ==
  /\ http.status = "running"
  /\ Mw[1] = "upload"
  /\ http' = IF ok THEN [http EXCEPT !.at = @ + 1, !.ran = Append(@, Mw)]
                   ELSE [http EXCEPT !.status = "400"]
  /\ UNCHANGED <<users, now, req, held, spent, pwSet, last, gate, catalog, client, query, pay>>

RunHandler ==
  /\ http.status = "running"
  /\ Mw[1] = "handler"
  /\ http' = [http EXCEPT !.ran = Append(@, Mw), !.status = "handled"]
  /\ UNCHANGED <<users, now, req, held, spent, pwSet, last, gate, catalog, client, query, pay>>

\* The response is sent and the request is over.
EndRequest ==
  /\ http.status \notin {"none", "running"}
  /\ http' = NoHttp
  /\ UNCHANGED <<users, now, req, held, spent, pwSet, last, gate, catalog, client, query, pay>>

\* ---------------------------------------------------------------- products
ProductIds == 1..NProducts
ProductNames == {"cup", "mug"}

\* req.user, as authenticate leaves it on the request
Callers == [id : Ids, role : Roles]

FreeProductId ==
  IF \E i \in ProductIds : ~catalog.products[i].exists
    THEN CHOOSE i \in ProductIds :
           /\ ~catalog.products[i].exists
           /\ \A j \in ProductIds : ~catalog.products[j].exists => i <= j
    ELSE 0

\* createProduct: req.body.vendor = req.user.id; Product.create({ ...req.body })
CreateProduct(user, name) ==
  /\ FreeProductId # 0
  /\ LET i == FreeProductId IN
       catalog' =
         [products |->
            [catalog.products EXCEPT
               ![i] = [exists |-> TRUE, vendor |-> user.id, name |-> name,
                       isDeleted |-> FALSE, isActive |-> TRUE]],
          call |-> [op |-> "createProduct", user |-> user, id |-> i,
                    before |-> NoProduct, status |-> 200,
                    message |-> "Product created successfully", results |-> {i}]]
  /\ UNCHANGED <<users, now, req, held, spent, pwSet, last, gate, http, client, query, pay>>

\* The filter updateProduct hands to findOneAndUpdate:
\* { _id: req.params.id, isDeleted: false }
UpdateProductQuery(user, id, product) == product.exists /\ ~product.isDeleted

\* The filter deleteProduct hands to findByIdAndUpdate: { _id: req.params.id }
DeleteProductQuery(user, id, product) == product.exists

\* req.body of updateProduct: the fields it carries and their values.
BodyFields == {"name", "isDeleted", "isActive"}

Bodies ==
  {body \in [fields : SUBSET BodyFields, name : ProductNames,
             isDeleted : BOOLEAN, isActive : BOOLEAN] :
     /\ body.name = IF "name" \in body.fields THEN "mug" ELSE "cup"
     /\ "isDeleted" \notin body.fields => ~body.isDeleted
     /\ "isActive" \notin body.fields => ~body.isActive}

\* { $set: req.body }
SetBody(product, body) ==
  [product EXCEPT
     !.name = IF "name" \in body.fields THEN body.name ELSE @,
     !.isDeleted = IF "isDeleted" \in body.fields THEN body.isDeleted ELSE @,
     !.isActive = IF "isActive" \in body.fields THEN body.isActive ELSE @]

\* updateProduct: findOneAndUpdate(query, { $set: req.body }); 404 when no
\* product matched.
UpdateProduct(user, id, body) ==
  /\ LET product == catalog.products[id]
         found == UpdateProductQuery(user, id, product)
     IN catalog' =
          [products |->
             IF found THEN [catalog.products EXCEPT ![id] = SetBody(product, body)]
                      ELSE catalog.products,
           call |-> [op |-> "updateProduct", user |-> user, id |-> id,
                     before |-> product,
                     status |-> IF found THEN 200 ELSE 404,
                     message |->
                       IF found THEN "Updated successfully."
                       ELSE IF user.role = "admin"
                         THEN "Product not found or deleted"
                         ELSE "Product not found, deleted, or you do not have permission to update this product",
                     results |-> IF found THEN {id} ELSE {}]]
  /\ UNCHANGED <<users, now, req, held, spent, pwSet, last, gate, http, client, query, pay>>

\* deleteProduct: findByIdAndUpdate(query, { isDeleted: true, isActive: false });
\* 404 when no product matched.
DeleteProduct(user, id) ==
  /\ LET product == catalog.products[id]
         found == DeleteProductQuery(user, id, product)
     IN catalog' =
          [products |->
             IF found
               THEN [catalog.products EXCEPT ![id].isDeleted = TRUE,
                                             ![id].isActive = FALSE]
               ELSE catalog.products,
           call |-> [op |-> "deleteProduct", user |-> user, id |-> id,
                     before |-> product,
                     status |-> IF found THEN 200 ELSE 404,
                     message |->
                       IF found THEN "Product soft-deleted successfully"
                       ELSE IF user.role = "admin"
                         THEN "Product not found"
                         ELSE "Product not found or you do not have permission to delete this product",
                     results |-> {}]]
  /\ UNCHANGED <<users, now, req, held, spent, pwSet, last, gate, http, client, query, pay>>

\* ------------------------------------------------------------------ client
\* What a validator returns for a form value: an error message, or nothing.
NameVerdicts == {"", "name error"}
EmailVerdicts == {"", "email error"}
PasswordVerdicts == {"", "password error"}
PasswordMatchVerdicts == {"", "match error"}

\* The forms, each value given by the verdict its validator returns for it.
LoginForms == [email : EmailVerdicts, password : PasswordVerdicts]

RegistrationForms ==
  [name : NameVerdicts, email : EmailVerdicts, password : PasswordVerdicts,
   passwordMatch : PasswordMatchVerdicts]

\* useLogin: validators.email, then validators.password; the first error is
\* thrown.
ValidateLogin(form) ==
  IF form.email # "" THEN form.email
  ELSE form.password

\* validateRegistration: name, email, password, passwordMatch, in this order.
ValidateRegistrationNoMatch(form) ==
  IF form.name # "" THEN form.name
  ELSE IF form.email # "" THEN form.email
  ELSE form.password

ValidateRegistration(form) ==
  IF form.name # "" THEN form.name
  ELSE IF form.email # "" THEN form.email
  ELSE IF form.password # "" THEN form.password
  ELSE form.passwordMatch

\* A mutationFn: throw new ApiError(error, 400) before any request, or send
\* the request through apiClient.publicApiRequest.
Mutation(hook, form, error, path) ==
  /\ Len(client.sent) < MaxSent
  /\ client' =
       IF error # ""
         THEN [hook |-> hook, input |-> form, error |-> 400, message |-> error,
               sent |-> client.sent]
         ELSE [hook |-> hook, input |-> form, error |-> 0, message |-> "",
               sent |-> Append(client.sent, [method |-> "POST", path |-> path])]
  /\ UNCHANGED <<users, now, req, held, spent, pwSet, last, gate, http, catalog, query, pay>>

useLogin(form) == Mutation("useLogin", form, ValidateLogin(form), "/auth/login")

useRegister(form) ==
  Mutation("useRegister", form, ValidateRegistration(form), "/auth/register")

useRegisterVendor(form) ==
  Mutation("useRegisterVendor", form, ValidateRegistration(form),
           "/auth/vendor-register")

\* The isActive query parameter: absent, 'true', or any other text.
IsActiveParams == {"", "true", "false"}

IsActiveFilter(isActive, product) ==
  isActive = "" \/ product.isActive = (isActive = "true")

\* A read request: the products it answers with.
Read(op, user, id, status, results) ==
  /\ catalog' = [catalog EXCEPT
                   !.call = [op |-> op, user |-> user, id |-> id,
                             before |-> IF id = 0 THEN NoProduct
                                        ELSE catalog.products[id],
                             status |-> status, message |-> "",
                             results |-> results]]
  /\ UNCHANGED <<users, now, req, held, spent, pwSet, last, gate, http, client, query, pay>>

\* getProductById: findOne({ _id: req.params.id, isDeleted: false }), 404 when
\* there is none
GetProductById(user, id) ==
  LET found == catalog.products[id].exists /\ ~catalog.products[id].isDeleted IN
  Read("getProductById", user, id, IF found THEN 200 ELSE 404,
       IF found THEN {id} ELSE {})

\* getAllProducts: find({ isDeleted: false, isActive? })
GetAllProducts(user, isActive) ==
  Read("getAllProducts", user, 0, 200,
       {i \in ProductIds : /\ catalog.products[i].exists
                           /\ ~catalog.products[i].isDeleted
                           /\ IsActiveFilter(isActive, catalog.products[i])})

\* getVendorProducts: find({ vendor: req.user.id, isDeleted: false, isActive? })
GetVendorProducts(user, isActive) ==
  Read("getVendorProducts", user, 0, 200,
       {i \in ProductIds : /\ catalog.products[i].exists
                           /\ catalog.products[i].vendor = user.id
                           /\ ~catalog.products[i].isDeleted
                           /\ IsActiveFilter(isActive, catalog.products[i])})

\* ---------------------------------------------------------------- payments
OrderIds == 1..NOrders

\* req.body of createPayment: order names a stored order, no order (0), or an
\* order that does not exist; amount 0 is a missing amount.
PaymentBodies ==
  [order : 0..(NOrders + 1), paymentProvider : {"", "stripe", "paystack", "paypal"},
   amount : {0, 5}]

OtherStore == <<users, now, req, held, spent, pwSet, last, gate, http, catalog,
                client, query>>

\* Payment.findOne({ order, status: { $in: ['completed', 'pending'] } })
ExistingPayment(order) ==
  \E k \in 1..Len(pay.payments) :
    /\ pay.payments[k].order = order
    /\ pay.payments[k].status \in {"completed", "pending"}

Answer(op, status, message) ==
  [NoAnswer EXCEPT !.op = op, !.status = status, !.message = message]

Creating == {p \in Procs : pay.work[p].op = "createPayment"}

\* createPayment up to the check for an existing payment
CreatePaymentCheck(p, body) ==
  /\ pay.work[p].op = "idle"
  /\ pay.issued + Cardinality(Creating) < MaxPayments
  /\ pay' =
       IF body.paymentProvider = "" \/ body.order = 0 \/ body.amount = 0
         THEN [pay EXCEPT !.answer =
                 Answer("createPayment", 400,
                        "Missing required fields: order, paymentProvider, and amount are required")]
       ELSE IF body.paymentProvider \notin {"stripe", "paystack"}
         THEN [pay EXCEPT !.answer =
                 Answer("createPayment", 400,
                        "Unsupported payment provider. Use \"stripe\" or \"paystack\"")]
       ELSE IF ExistingPayment(body.order)
         THEN [pay EXCEPT !.answer =
                 Answer("createPayment", 409, "Payment already exists for this order")]
       ELSE [pay EXCEPT !.work[p] = [NoJob EXCEPT !.op = "createPayment",
                                                  !.request = body],
                        !.answer = NoAnswer]
  /\ UNCHANGED OtherStore

\* createProviderPayment (Order.findById, then the provider's API), then
\* Payment.create with status 'pending'
CreatePaymentSave(p, providerOk) ==
  /\ pay.work[p].op = "createPayment"
  /\ LET body == pay.work[p].request IN
     pay' =
       IF body.order \notin OrderIds
         THEN [pay EXCEPT !.work[p] = NoJob,
                          !.answer = Answer("createPayment", 500, "Order not found")]
       ELSE IF ~providerOk
         THEN [pay EXCEPT !.work[p] = NoJob,
                          !.answer = Answer("createPayment", 500,
                                            "payment creation failed")]
       ELSE [pay EXCEPT
               !.work[p] = NoJob,
               !.issued = @ + 1,
               !.payments =
                  Append(@, [order |-> body.order,
                             paymentProvider |-> body.paymentProvider,
                             paymentId |-> <<body.paymentProvider, pay.issued + 1>>,
                             status |-> "pending"]),
               !.answer = Answer("createPayment", 200, "")]
  /\ UNCHANGED OtherStore

\* The webhook requests: whether the signature verifies, the event type, and
\* the session id or reference the event carries.
PaymentIds(provider) == {provider} \X (1..MaxPayments)

StripeEvents ==
  {"checkout.session.completed", "checkout.session.expired",
   "charge.dispute.created", "invoice.paid"}

PaystackEvents == {"charge.success", "charge.failed", "transfer.success"}

Webhooks(provider) ==
  [signatureOk : BOOLEAN,
   type : IF provider = "stripe" THEN StripeEvents ELSE PaystackEvents,
   paymentId : PaymentIds(provider)]

\* Payment.findOne({ paymentId })
FindPayment(paymentId) ==
  LET M == {k \in 1..Len(pay.payments) : pay.payments[k].paymentId = paymentId}
  IN IF M = {} THEN 0 ELSE CHOOSE k \in M : \A j \in M : k <= j

\* The status an event type writes to the payment ("" for none), and whether
\* the order is updated with it.
EventStatus(type) ==
  CASE type \in {"checkout.session.completed", "charge.success"} -> "completed"
    [] type \in {"checkout.session.expired", "charge.failed"} -> "failed"
    [] type = "charge.dispute.created" -> "disputed"
    [] OTHER -> ""

SuccessEvents == {"checkout.session.completed", "charge.success"}

Todo(type) ==
  IF type \in SuccessEvents THEN {"payment", "order"}
  ELSE IF EventStatus(type) # "" THEN {"payment"}
  ELSE {}

\* A handler that looks the payment up whatever the signature check says.
VerifiedUnchecked(request) == TRUE

\* stripe.webhooks.constructEvent returns / the HMAC of the body equals the
\* x-paystack-signature header
Verified(request) == request.signatureOk

\* handleStripeWebhook / handlePaystackWebhook up to the switch: the signature
\* check and Payment.findOne; an error is thrown when either fails.
HandleWebhook(p, provider, request, via) ==
  /\ pay.work[p].op = "idle"
  /\ pay' =
       IF ~Verified(request)
         THEN [pay EXCEPT !.answer =
                 Answer(provider, 500,
                        IF provider = "paystack" THEN "Invalid webhook signature"
                        ELSE "StripeSignatureVerificationError")]
       ELSE IF FindPayment(request.paymentId) = 0
         THEN [pay EXCEPT !.answer = Answer(provider, 500, "Payment not found")]
       ELSE [pay EXCEPT
               !.work[p] = [op |-> provider, via |-> via,
                            request |-> request,
                            payment |-> FindPayment(request.paymentId),
                            todo |-> Todo(request.type)],
               !.answer = NoAnswer]
  /\ UNCHANGED OtherStore

HandleStripeWebhook(p, request) == HandleWebhook(p, "stripe", request, "")

HandlePaystackWebhook(p, request) == HandleWebhook(p, "paystack", request, "")

\* Payment.findByIdAndUpdate(payment._id, { status, ... })
UpdatePayment(p) ==
  /\ pay.work[p].op \in {"stripe", "paystack"}
  /\ "payment" \in pay.work[p].todo
  /\ pay' = [pay EXCEPT
               !.payments[pay.work[p].payment].status =
                  EventStatus(pay.work[p].request.type),
               !.work[p].todo = @ \ {"payment"}]
  /\ UNCHANGED OtherStore

\* Order.findByIdAndUpdate(payment.order, { paymentStatus: 'completed',
\* orderStatus: 'processing' })
UpdateOrder(p) ==
  /\ pay.work[p].op \in {"stripe", "paystack"}
  /\ "order" \in pay.work[p].todo
  /\ pay' = [pay EXCEPT
               !.orders[pay.payments[pay.work[p].payment].order] =
                  [paymentStatus |-> "completed", orderStatus |-> "processing"],
               !.work[p].todo = @ \ {"order"}]
  /\ UNCHANGED OtherStore

\* The handler returns once its updates have resolved; processWebhooks then
\* answers 200.
WebhookReturn(p) ==
  /\ pay.work[p].op \in {"stripe", "paystack"}
  /\ pay.work[p].todo = {}
  /\ pay' = [pay EXCEPT
               !.work[p] = NoJob,
               !.answer =
                  IF pay.work[p].via = "processWebhooks"
                    THEN [Answer("processWebhooks", 200,
                                 "Webhook processed successfully")
                            EXCEPT !.event = pay.work[p].request.type]
                    ELSE [Answer(pay.work[p].op, 0, "")
                            EXCEPT !.event = pay.work[p].request.type]]
  /\ UNCHANGED OtherStore

\* const paymentProvider = req.params: the object of the route parameters.
ReqParams(provider) == [type |-> "object", provider |-> provider]

\* a === 'text': true only for a string of the same text
StrictEquals(a, text) == a.type = "string" /\ a.provider = text

\* processWebhooks
ProcessWebhooks(p, provider, request) ==
  LET paymentProvider == ReqParams(provider) IN
  IF StrictEquals(paymentProvider, "stripe")
    THEN HandleWebhook(p, "stripe", request, "processWebhooks")
  ELSE IF StrictEquals(paymentProvider, "paystack")
    THEN HandleWebhook(p, "paystack", request, "processWebhooks")
  ELSE /\ pay.work[p].op = "idle"
       /\ pay' = [pay EXCEPT !.answer =
                    [Answer("processWebhooks", 400, "Unknown payment provider")
                       EXCEPT !.event = provider]]
       /\ UNCHANGED OtherStore

\* ----------------------------------------------------------- profile query
\* retry: failureCount < 3
RetryLimit == 3

\* What a failed getProfile() rejects with: an ApiError carrying the HTTP
\* status of the answer, or an error that is no ApiError (the network failed).
ApiErrors == [isApiError : {TRUE}, status : {400, 401, 403, 404, 499, 500, 503}]

FetchErrors == ApiErrors \cup {[isApiError |-> FALSE, status |-> 0]}

\* retry: (failureCount, error) => ...
RetryAlsoClientErrors(failureCount, error) == failureCount < RetryLimit

Retry(failureCount, error) ==
  IF error.isApiError /\ error.status >= 400 /\ error.status < 500
    THEN FALSE
    ELSE failureCount < RetryLimit

\* useProfile: the query starts a fetch (enabled, stale or invalidated).
FetchProfile ==
  /\ query.status # "fetching"
  /\ query.fetches < MaxFetches
  /\ query' = [status |-> "fetching", failureCount |-> 0,
               failureReason |-> NoError, error |-> NoError,
               fetches |-> query.fetches + 1]
  /\ UNCHANGED <<users, now, req, held, spent, pwSet, last, gate, http, catalog,
                 client, pay>>

\* queryFn resolves: getProfile() answered.
ProfileFetched ==
  /\ query.status = "fetching"
  /\ query' = [query EXCEPT !.status = "success"]
  /\ UNCHANGED <<users, now, req, held, spent, pwSet, last, gate, http, catalog,
                 client, pay>>

\* queryFn rejects: the query asks retry(failureCount, error) with the count
\* of the failures before this one, and runs queryFn again or settles.
ProfileFetchFailed(error) ==
  /\ query.status = "fetching"
  /\ query' =
       IF Retry(query.failureCount, error)
         THEN [query EXCEPT !.failureCount = @ + 1, !.failureReason = error]
         ELSE [query EXCEPT !.status = "error", !.failureCount = @ + 1,
                            !.failureReason = error, !.error = error]
  /\ UNCHANGED <<users, now, req, held, spent, pwSet, last, gate, http, catalog,
                 client, pay>>

\* ------------------------------------------------------ permission methods
\* ObjectId.prototype.toString: the id as the string a route parameter carries.
ObjectIdToString(id) == <<"oid", id>>

\* userSchema.methods.canAccessUser
CanAccessUser(this, requestedUserId, userRole) ==
  userRole = "admin" \/ ObjectIdToString(this) = requestedUserId

\* userSchema.methods.canUpdateUser
CanUpdateUser(this, requestedUserId, userRole) ==
  userRole = "admin" \/ ObjectIdToString(this) = requestedUserId

\* canDeactivateUser without the exception for the admin's own account.
CanDeactivateUserAlsoSelf(this, targetUserId, currentUserRole) ==
  currentUserRole = "admin" \/ ObjectIdToString(this) = targetUserId

\* userSchema.methods.canDeactivateUser
CanDeactivateUser(this, targetUserId, currentUserRole) ==
  LET currentUserId == ObjectIdToString(this) IN
  IF currentUserRole = "admin" /\ currentUserId # targetUserId THEN TRUE
  ELSE IF currentUserRole # "admin" /\ currentUserId = targetUserId THEN TRUE
  ELSE FALSE

\* canInvalidateTokens that allows the account's owner only.
CanInvalidateTokensOwnerOnly(this, targetUserId, currentUserRole) ==
  ObjectIdToString(this) = targetUserId

\* userSchema.methods.canInvalidateTokens
CanInvalidateTokens(this, targetUserId, currentUserRole) ==
  LET currentUserId == ObjectIdToString(this) IN
  currentUserRole = "admin" \/ currentUserId = targetUserId

\* A permission method is called on the acting user's document with the id
\* string of the target user and the acting role.
GateCall(method, result) ==
  /\ gate.method = "none"
  /\ gate' = [gate EXCEPT !.method = method, !.result = result]
  /\ UNCHANGED <<users, now, req, held, spent, pwSet, last, http, catalog, client, query, pay>>

CallCanAccessUser ==
  GateCall("canAccessUser",
           CanAccessUser(gate.this, ObjectIdToString(gate.target), gate.role))

CallCanUpdateUser ==
  GateCall("canUpdateUser",
           CanUpdateUser(gate.this, ObjectIdToString(gate.target), gate.role))

CallCanDeactivateUser ==
  GateCall("canDeactivateUser",
           CanDeactivateUser(gate.this, ObjectIdToString(gate.target), gate.role))

CallCanInvalidateTokens ==
  GateCall("canInvalidateTokens",
           CanInvalidateTokens(gate.this, ObjectIdToString(gate.target), gate.role))

\* ------------------------------------------------------------------ OAuth
\* The user document the OAuth strategy hands to processOAuthCallback for a
\* first sign-in: no password (the schema requires none with a provider id).
OAuthUser(i, e) ==
  [NoUser EXCEPT !.exists = TRUE, !.id = i, !.email = NormalizeEmail(e),
                 !.isActive = TRUE]

\* userSchema.statics.processOAuthCallback for a first sign-in: generateToken,
\* the refresh token assigned, save() of the new document.
ProcessOAuthCallback(p, e) ==
  /\ UNCHANGED <<spent, pwSet>>
  /\ req[p].op = "idle"
  /\ FindByEmail(e) = 0
  /\ FreeId # 0
  /\ LET user == OAuthUser(FreeId, e)
         tk == GenerateToken(user, now)
         doc == [user EXCEPT !.refreshToken = tk.refreshToken]
     IN /\ users' = [users EXCEPT ![FreeId] =
                       PreSavePassword(PreSaveVerification(doc, TRUE, now), NoUser)]
        /\ Hand(tk.accessToken)
        /\ last' = [Resp("oauth", FreeId, "") EXCEPT !.access = tk.accessToken,
                                                      !.refresh = tk.refreshToken]
  /\ UNCHANGED <<now, req, gate, http, catalog, client, query, pay>>

Tick ==
  /\ UNCHANGED <<spent, pwSet>>
  /\ now < MaxTime
  /\ now' = now + 1
  /\ last' = NoResp
  /\ UNCHANGED <<users, req, held, gate, http, catalog, client, query, pay>>

\* ------------------------------------------------------- specifications
\* No request is in flight.
Quiet == \A p \in Procs : req[p].op = "idle"

\* The store as the server finds it when it starts with an empty database.
EmptyInit ==
  /\ users = [i \in Ids |-> NoUser]
  /\ now = 0
  /\ req = [p \in Procs |-> Idle]
  /\ held = NoHeld
  /\ spent = NoSpent
  /\ pwSet = [i \in Ids |-> NoPassword]
  /\ last = NoResp
  /\ gate = NoGate
  /\ http = NoHttp
  /\ catalog = NoCatalog
  /\ client = NoClient
  /\ query = NoQuery
  /\ pay = NoPay

\* The store after one registration (createIfNotExists at time 0).
RegisteredInit ==
  /\ users = [i \in Ids |->
                IF i = 1 THEN CreateDoc(1, "a@x.io", <<"pw1">>, "customer", 0)
                ELSE NoUser]
  /\ now = 0
  /\ req = [p \in Procs |-> Idle]
  /\ held = NoHeld
  /\ spent = NoSpent
  /\ pwSet = [i \in Ids |-> IF i = 1 THEN <<"pw1">> ELSE NoPassword]
  /\ last = NoResp
  /\ gate = NoGate
  /\ http = NoHttp
  /\ catalog = NoCatalog
  /\ client = NoClient
  /\ query = NoQuery
  /\ pay = NoPay

RegisterNext ==
  \/ \E p \in Procs, e \in RawEmails, pw \in Passwords : RegisterCheck(p, e, pw)
  \/ \E p \in Procs : RegisterCreate(p)
  \/ \E p \in Procs, e \in RawEmails, pw \in Passwords : VendorCheck(p, e, pw)
  \/ \E p \in Procs : VendorCreate(p)

RegisterSpec == EmptyInit /\ [][RegisterNext \/ Tick]_vars

\* Sessions: login, token rotation, logout, invalidation, account status.
SessionNext ==
  \/ \E p \in Procs, e \in RawEmails, pw \in Passwords : LoginFind(p, e, pw)
  \/ \E p \in Procs : LoginWithTokens(p)
  \/ \E p \in Procs, rt \in KnownRefreshTokens : FindByRefreshToken(p, rt)
  \/ \E p \in Procs : RefreshTokens(p)
  \/ \E p \in Procs, i \in Ids : LogoutLoad(p, i)
  \/ \E p \in Procs : ClearRefreshToken(p)
  \/ \E p \in Procs, i \in Ids : InvalidateLoad(p, i)
  \/ \E p \in Procs : InvalidateAllTokens(p)
  \/ \E p \in Procs, i \in Ids : DeactivateLoad(p, i)
  \/ \E p \in Procs, ok \in BOOLEAN : Deactivate(p, ok)
  \/ \E p \in Procs, i \in Ids : ActivateLoad(p, i)
  \/ \E p \in Procs, ok \in BOOLEAN : Activate(p, ok)
  \/ Tick

Spec == RegisteredInit /\ [][SessionNext]_vars

\* Password reset: forgot-password and reset-password requests.
ResetNext ==
  \/ \E p \in Procs, e \in RawEmails : ForgotFind(p, e)
  \/ \E p \in Procs, ok \in BOOLEAN : CreatePasswordResetToken(p, ok)
  \/ \E p \in Procs, tk \in ResetTokenValues, pw \in Passwords :
        ResetFind(p, tk, pw)
  \/ \E p \in Procs : ResetPassword(p)

\* E-mail verification: the requests that send a verification mail, and
\* verify-email.
VerifyNext ==
  \/ \E p \in Procs, i \in Ids : SendVerificationLoad(p, i)
  \/ \E p \in Procs, ok \in BOOLEAN : SendVerificationEmail(p, ok)
  \/ \E p \in Procs, i \in Ids : ResendVerificationLoad(p, i)
  \/ \E p \in Procs, ok \in BOOLEAN : SendResendVerificationEmail(p, ok)
  \/ \E p \in Procs, tk \in VerifyTokenValues : VerifyFind(p, tk)
  \/ \E p \in Procs : VerifyEmail(p)

ResetSpec == RegisteredInit /\ [][ResetNext \/ Tick]_vars

VerifySpec == RegisteredInit /\ [][VerifyNext \/ Tick]_vars

\* Both token flows against one clock, the requests served one at a time
\* (a request starts only when no other is in flight); time may pass between
\* the two steps of a request.
ExpiryNext ==
  \/ \E p \in Procs, e \in RawEmails : Quiet /\ ForgotFind(p, e)
  \/ \E p \in Procs, ok \in BOOLEAN : CreatePasswordResetToken(p, ok)
  \/ \E p \in Procs, tk \in ResetTokenValues, pw \in Passwords :
        Quiet /\ ResetFind(p, tk, pw)
  \/ \E p \in Procs : ResetPassword(p)
  \/ \E p \in Procs, i \in Ids : Quiet /\ ResendVerificationLoad(p, i)
  \/ \E p \in Procs, ok \in BOOLEAN : SendResendVerificationEmail(p, ok)
  \/ \E p \in Procs, tk \in VerifyTokenValues : Quiet /\ VerifyFind(p, tk)
  \/ \E p \in Procs : VerifyEmail(p)
  \/ Tick

ExpirySpec == RegisteredInit /\ [][ExpiryNext]_vars

\* Permission methods: the receiver, the target and the role are the inputs.
GateInit ==
  /\ users = [i \in Ids |-> NoUser]
  /\ now = 0
  /\ req = [p \in Procs |-> Idle]
  /\ held = NoHeld
  /\ spent = NoSpent
  /\ pwSet = [i \in Ids |-> NoPassword]
  /\ last = NoResp
  /\ gate \in [this : GateIds, target : GateIds, role : Roles,
               method : {"none"}, result : {FALSE}]
  /\ http = NoHttp
  /\ catalog = NoCatalog
  /\ client = NoClient
  /\ query = NoQuery
  /\ pay = NoPay

GateNext ==
  \/ CallCanAccessUser
  \/ CallCanUpdateUser
  \/ CallCanDeactivateUser
  \/ CallCanInvalidateTokens

GateSpec == GateInit /\ [][GateNext]_vars

\* Credentials: accounts are created by registration or by a first OAuth
\* sign-in, passwords are set by registration and by password reset; the
\* requests are served one at a time and the clock stands still.
CredentialNext ==
  \/ \E p \in Procs, e \in RawEmails, pw \in Passwords :
        Quiet /\ RegisterCheck(p, e, pw)
  \/ \E p \in Procs : RegisterCreate(p)
  \/ \E p \in Procs, e \in RawEmails : Quiet /\ ProcessOAuthCallback(p, e)
  \/ \E p \in Procs, e \in RawEmails, pw \in Passwords :
        Quiet /\ LoginFind(p, e, pw)
  \/ \E p \in Procs : LoginWithTokens(p)
  \/ \E p \in Procs, e \in RawEmails : Quiet /\ ForgotFind(p, e)
  \/ \E p \in Procs, ok \in BOOLEAN : CreatePasswordResetToken(p, ok)
  \/ \E p \in Procs, tk \in ResetTokenValues, pw \in Passwords :
        Quiet /\ ResetFind(p, tk, pw)
  \/ \E p \in Procs : ResetPassword(p)

CredentialSpec == EmptyInit /\ [][CredentialNext]_vars

\* Account status: accounts are created by registration or by a first OAuth
\* sign-in, then activated and deactivated; the requests are served one at a
\* time.
StatusNext ==
  \/ \E p \in Procs, e \in RawEmails, pw \in Passwords :
        Quiet /\ RegisterCheck(p, e, pw)
  \/ \E p \in Procs : RegisterCreate(p)
  \/ \E p \in Procs, e \in RawEmails, pw \in Passwords :
        Quiet /\ VendorCheck(p, e, pw)
  \/ \E p \in Procs : VendorCreate(p)
  \/ \E p \in Procs, e \in RawEmails : Quiet /\ ProcessOAuthCallback(p, e)
  \/ \E p \in Procs, i \in Ids : Quiet /\ ActivateLoad(p, i)
  \/ \E p \in Procs, ok \in BOOLEAN : Activate(p, ok)
  \/ \E p \in Procs, i \in Ids : Quiet /\ DeactivateLoad(p, i)
  \/ \E p \in Procs, ok \in BOOLEAN : Deactivate(p, ok)

StatusSpec == EmptyInit /\ [][StatusNext]_vars

\* Notifications: the requests that call the EmailService, which delivers
\* or fails; the requests are served one at a time.
MailNext ==
  \/ \E p \in Procs, i \in Ids : Quiet /\ ActivateLoad(p, i)
  \/ \E p \in Procs, ok \in BOOLEAN : Activate(p, ok)
  \/ \E p \in Procs, i \in Ids : Quiet /\ DeactivateLoad(p, i)
  \/ \E p \in Procs, ok \in BOOLEAN : Deactivate(p, ok)
  \/ \E p \in Procs, i \in Ids : Quiet /\ SendVerificationLoad(p, i)
  \/ \E p \in Procs, ok \in BOOLEAN : SendVerificationEmail(p, ok)
  \/ \E p \in Procs, e \in RawEmails : Quiet /\ ForgotFind(p, e)
  \/ \E p \in Procs, ok \in BOOLEAN : CreatePasswordResetToken(p, ok)
  \/ Tick

MailSpec == RegisteredInit /\ [][MailNext]_vars

\* User views: login, logout, the profile and the list of users.
ViewNext ==
  \/ \E p \in Procs, e \in RawEmails, pw \in Passwords : LoginFind(p, e, pw)
  \/ \E p \in Procs : LoginWithTokens(p)
  \/ \E p \in Procs, i \in Ids : LogoutLoad(p, i)
  \/ \E p \in Procs : ClearRefreshToken(p)
  \/ \E i \in Ids : GetProfile(i)
  \/ \E role \in Roles \cup {""}, page \in 1..MaxPage, limit \in 1..MaxLimit :
        ListUsers(role, page, limit)
  \/ Tick

ViewSpec == RegisteredInit /\ [][ViewNext]_vars

\* Requests the routers are sent: every method on every declared path, with
\* each parameter filled in, and one path no route declares.
Methods == {"GET", "POST", "PUT", "PATCH", "DELETE"}

ParamValues == {"1", "admin"}

Fill(pattern, v) ==
  [k \in 1..Len(pattern) |-> IF pattern[k] \in Params THEN v ELSE pattern[k]]

RequestPaths(router) ==
  {Fill(Routes(router)[k].path, v) :
     k \in 1..Len(Routes(router)), v \in ParamValues} \cup {<<"missing">>}

Requests ==
  UNION {[router : {router}, method : Methods, path : RequestPaths(router),
          tokenOk : BOOLEAN, role : Roles, inputOk : BOOLEAN] : router \in Routers}

RouteNext ==
  \/ \E request \in Requests : Receive(request)
  \/ Authenticate
  \/ RoleGate
  \/ Validation
  \/ \E ok \in BOOLEAN : Upload(ok)
  \/ RunHandler
  \/ EndRequest

RouteSpec == EmptyInit /\ [][RouteNext]_vars

ProductNext ==
  \/ \E user \in Callers, name \in ProductNames : CreateProduct(user, name)
  \/ \E user \in Callers, id \in ProductIds, body \in Bodies :
       UpdateProduct(user, id, body)
  \/ \E user \in Callers, id \in ProductIds : DeleteProduct(user, id)
  \/ \E user \in Callers, id \in ProductIds : GetProductById(user, id)
  \/ \E user \in Callers, isActive \in IsActiveParams :
       GetAllProducts(user, isActive)
  \/ \E user \in Callers, isActive \in IsActiveParams :
       GetVendorProducts(user, isActive)

ProductSpec == EmptyInit /\ [][ProductNext]_vars

\* Requests to the routes declared with the validation middleware.
ValidatedPaths == {<<"register">>, <<"vendor-register">>, <<"login">>}

ValidatedRequests ==
  {request \in Requests :
     /\ request.router = "auth"
     /\ request.method = "POST"
     /\ request.path \in ValidatedPaths}

ValidationNext ==
  \/ \E request \in ValidatedRequests : Receive(request)
  \/ Validation
  \/ RunHandler
  \/ EndRequest
  \/ \E form \in LoginForms : useLogin(form)
  \/ \E form \in RegistrationForms : useRegister(form)
  \/ \E form \in RegistrationForms : useRegisterVendor(form)

ValidationSpec == EmptyInit /\ [][ValidationNext]_vars

ProfileNext ==
  \/ FetchProfile
  \/ ProfileFetched
  \/ \E error \in FetchErrors : ProfileFetchFailed(error)

ProfileSpec == EmptyInit /\ [][ProfileNext]_vars

\* Every run of queryFn ends: the request is answered or fails.
ProfileLiveSpec ==
  ProfileSpec /\ WF_vars(ProfileFetched \/ \E error \in FetchErrors : ProfileFetchFailed(error))

PaymentNext ==
  \/ \E p \in Procs, body \in PaymentBodies : CreatePaymentCheck(p, body)
  \/ \E p \in Procs, ok \in BOOLEAN : CreatePaymentSave(p, ok)
  \/ \E p \in Procs, provider \in {"stripe", "paystack", "paypal"} :
       \E request \in Webhooks(provider) : ProcessWebhooks(p, provider, request)
  \/ \E p \in Procs, request \in Webhooks("stripe") : HandleStripeWebhook(p, request)
  \/ \E p \in Procs, request \in Webhooks("paystack") :
       HandlePaystackWebhook(p, request)
  \/ \E p \in Procs : UpdatePayment(p)
  \/ \E p \in Procs : UpdateOrder(p)
  \/ \E p \in Procs : WebhookReturn(p)

PaymentSpec == EmptyInit /\ [][PaymentNext]_vars

\* --------------------------------------------------------------- claims
\* Requests that issue a token pair, and those that bump tokenVersion.
Issuing == {"login", "refresh"}
Bumping == {"invalidate", "deactivate"}

\* The step of worker p saves the document of the request it was handling.
Saves(p, ops) ==
  /\ req[p].op \in ops
  /\ req'[p].op = "idle"
  /\ last'.err = ""

\* C1: once a tokenVersion bump of a user (invalidateAllTokens, deactivate)
\* has been saved, every access token issued for that user before that save
\* fails the session check.
C1_TokensIssuedBeforeBumpFail ==
  held.bumped => ~SessionCheck(held.token)

\* C2: the stored tokenVersion never decreases, and each completed
\* invalidateAllTokens or deactivate leaves it strictly greater than the
\* value it held when that request loaded the user.
C2_TokenVersionMonotonic ==
  [][/\ \A i \in Ids :
          users[i].exists => users'[i].tokenVersion >= users[i].tokenVersion
     /\ \A p \in Procs :
          Saves(p, Bumping) =>
            users'[req[p].id].tokenVersion > req[p].doc.tokenVersion]_vars

\* C3: while a user is stored as deactivated, no access token of that user
\* passes the session check.
C3_DeactivatedHasNoLiveToken ==
  \A i \in Ids :
    (users[i].exists /\ ~users[i].isActive) =>
      ~(held.token # NoToken /\ held.token[2] = i /\ SessionCheck(held.token))

\* The payload a token embeds (without iat and exp).
Payload(token) == SubSeq(token, 2, Len(token) - 2)

UserPayload(u) == <<u.id, u.email, u.role, u.tokenVersion>>

C4_ResetTokenNeverAcceptedAgain ==
  /\ (last.op = "reset" /\ last.err = "") =>
       /\ users[last.id].resetPasswordToken = NoToken
       /\ users[last.id].resetPasswordExpires = NoDate
  /\ (last.op = "reset" /\ last.err # "") =>
       /\ last.err = "Invalid or expired token"
       /\ FindResetToken(last.tok) = 0
  /\ spent.reset.token # NoToken => FindResetToken(spent.reset.token) = 0

\* C5: the consumption of a verification token sets isEmailVerified and
\* clears emailVerificationToken and emailVerificationExpires, and a second
\* consumption with the same token value (no token of that value having been
\* issued again) fails with "Invalid or expired token".
C5_VerificationTokenSingleUse ==
  /\ (last.op = "verify" /\ last.err = "") =>
       /\ users[last.id].isEmailVerified
       /\ users[last.id].emailVerificationToken = NoToken
       /\ users[last.id].emailVerificationExpires = NoDate
  /\ (spent.verify.token # NoToken /\ ~spent.verify.again) =>
       /\ FindByVerificationToken(spent.verify.token) = 0
       /\ (last.op = "verify" /\ last.tok = spent.verify.token /\ last.err # "")
            => last.err = "Invalid or expired token"

\* C6: findResetToken and findByVerificationToken accept a token only while
\* the expiry stored with it is later than the current time.
C6_ExpiredTokenNeverAccepted ==
  [][\A p \in Procs :
       /\ (req[p].op = "idle" /\ req'[p].op = "reset") =>
            users[req'[p].id].resetPasswordExpires > now
       /\ (req[p].op = "idle" /\ req'[p].op = "verify") =>
            users[req'[p].id].emailVerificationExpires > now]_vars

\* C6 witness: the stored reset token is presented at the very time stored as
\* its expiry, and is refused.
C6_Witness ==
  /\ last.op = "reset" /\ last.err = "Invalid or expired token"
  /\ \E i \in Ids : /\ users[i].exists
                    /\ users[i].resetPasswordToken = last.tok
                    /\ users[i].resetPasswordExpires = now

\* The permission methods that allow the owner and the admin.
OwnershipGates == {"canAccessUser", "canUpdateUser", "canInvalidateTokens"}

\* C7: canAccessUser, canUpdateUser and canInvalidateTokens return true
\* exactly when the acting role is admin or the acting user is the target:
\* a non-admin is denied on another user and allowed on itself, an admin is
\* allowed on any target.
C7_OwnershipGates ==
  gate.method \in OwnershipGates =>
    /\ gate.result <=> (gate.role = "admin" \/ gate.this = gate.target)
    /\ (gate.role # "admin" /\ gate.this # gate.target) => ~gate.result
    /\ (gate.role # "admin" /\ gate.this = gate.target) => gate.result
    /\ gate.role = "admin" => gate.result

\* C7 witness: canInvalidateTokens has denied a non-admin acting on another
\* user.
C7_Witness ==
  /\ gate.method = "canInvalidateTokens"
  /\ gate.role = "vendor" /\ gate.this # gate.target
  /\ ~gate.result

\* C8: canDeactivateUser is true exactly when the role is admin and the
\* target is not the acting user, or the role is not admin and the target is
\* the acting user.
C8_DeactivateGate ==
  gate.method = "canDeactivateUser" =>
    (gate.result <=>
       \/ gate.role = "admin" /\ gate.target # gate.this
       \/ gate.role # "admin" /\ gate.target = gate.this)

\* C8 witness: canDeactivateUser has denied an admin acting on its own
\* account.
C8_Witness ==
  /\ gate.method = "canDeactivateUser"
  /\ gate.role = "admin" /\ gate.this = gate.target
  /\ ~gate.result

\* C10: findByEmailAndValidateCredential(e, pw) returns the user exactly when
\* pw is the password last set for the account of e by registration or
\* resetPassword; otherwise it fails with 'Invalid credentials', no tokens are
\* issued and the stored users are unchanged; and no stored password is the
\* plaintext.
C10_LoginIffLastSetPassword ==
  /\ [](\A i \in Ids : users[i].exists => users[i].password \notin Passwords)
  /\ [][\A p \in Procs, e \in RawEmails, pw \in Passwords :
          LoginFind(p, e, pw) =>
            LET i == FindByEmail(e) IN
            /\ req'[p].op = "login" <=> (i # 0 /\ pwSet[i] = pw)
            /\ req'[p].op # "login" =>
                 /\ last'.err = "Invalid credentials"
                 /\ last'.access = NoToken /\ last'.refresh = NoToken
                 /\ users' = users]_vars

\* C11: resetPassword stores the new password and clears resetPasswordToken
\* and resetPasswordExpires in one save: every step that changes a stored
\* password leaves the reset token and its expiry cleared, and every step
\* that clears a stored reset token is the save of a reset-password request,
\* which leaves the hash of that request's new password stored.
C11_ResetIsOneMutation ==
  [][\A i \in Ids : users[i].exists =>
       LET u == users[i]
           v == users'[i]
       IN /\ v.password # u.password =>
               /\ v.resetPasswordToken = NoToken
               /\ v.resetPasswordExpires = NoDate
          /\ (u.resetPasswordToken # NoToken /\ v.resetPasswordToken = NoToken) =>
               /\ v.resetPasswordExpires = NoDate
               /\ \E p \in Procs : /\ req[p].op = "reset" /\ req[p].id = i
                                   /\ req'[p].op = "idle"
                                   /\ v.password = BcryptHash(req[p].arg)
                                   /\ pwSet'[i] = req[p].arg]_vars

\* C11 witness: a reset-password request has completed; the hash of its new
\* password is stored and the token and its expiry are cleared.
C11_Witness ==
  /\ last.op = "reset" /\ last.err = ""
  /\ users[last.id].password = BcryptHash(<<"pw2">>)
  /\ users[last.id].resetPasswordToken = NoToken
  /\ users[last.id].resetPasswordExpires = NoDate

\* C12: no user view handed to a caller (the user of loginWithTokens' triple,
\* the result of getPublicProfile, the users of findWithPagination) contains
\* the password field or the refreshToken field.
C12_ViewsHideSecrets ==
  \A k \in 1..Len(last.views) :
    /\ "password" \notin DOMAIN last.views[k]
    /\ "refreshToken" \notin DOMAIN last.views[k]

Registering == {"register", "vendorRegister"}

\* C13: no two stored users share a normalized email, and createIfNotExists
\* and createVendor called with an email that is already stored fail with
\* 'Email already exists' and create no record, also when two registrations
\* for the same email interleave their check and create steps.
C13_EmailUnique ==
  /\ [](\A i, j \in Ids :
          (users[i].exists /\ users[j].exists /\ i # j) =>
             users[i].email # users[j].email)
  /\ [](\A i \in Ids :
          users[i].exists => users[i].email = NormalizeEmail(users[i].email))
  /\ []((last.op \in Registering /\ last.err # "") =>
          last.err = "Email already exists")
  /\ [][(last'.op \in Registering /\ last'.err # "") => users' = users]_vars

\* The step saves the document of an op request about user i.
SavesFor(i, op) ==
  \E p \in Procs : req[p].op = op /\ req[p].id = i /\ req'[p].op = "idle"

\* C14: a user created by registration is stored inactive, a user created by
\* the OAuth callback is stored active, and isActive then changes only from
\* false to true by activate and from true to false by deactivate.
C14_AccountStatus ==
  /\ []((last.op \in Registering /\ last.err = "") => ~users[last.id].isActive)
  /\ []((last.op = "oauth" /\ last.err = "") => users[last.id].isActive)
  /\ [][\A i \in Ids : users[i].exists =>
          /\ (~users[i].isActive /\ users'[i].isActive) => SavesFor(i, "activate")
          /\ (users[i].isActive /\ ~users'[i].isActive) => SavesFor(i, "deactivate")
       ]_vars

\* C15: a failure of the EmailService during activate or deactivate does not
\* prevent the status change (for deactivate, the tokenVersion bump as well)
\* from being stored, and a failure during sendVerificationEmail or
\* processPasswordReset leaves the token of that request stored.
C15_MailFailureKeepsChange ==
  [][\A p \in Procs :
       (req[p].op # "idle" /\ req'[p].op = "idle"
          /\ last'.err = "EmailService failed") =>
         LET u == users'[req[p].id]
             doc == req[p].doc
         IN /\ req[p].op = "activate" => u.isActive
            /\ req[p].op = "deactivate" =>
                 ~u.isActive /\ u.tokenVersion = doc.tokenVersion + 1
            /\ req[p].op = "sendVerification" =>
                 /\ u.emailVerificationToken =
                      GenerateVerificationEmailToken(doc, now).emailVerificationToken
                 /\ u.emailVerificationExpires = now + VerifyTTL
            /\ req[p].op = "forgot" =>
                 /\ u.resetPasswordToken = PasswordResetToken(doc, now).resetPasswordToken
                 /\ u.resetPasswordExpires = now + ResetTTL]_vars

\* C16: once a bump of tokenVersion (invalidateAllTokens, deactivate) has
\* been saved, the refresh token issued with an access token from before the
\* bump is not exchanged, by findByRefreshToken and refreshTokens, for an
\* access token that passes the session check.
C16_RefreshTokenDiesWithBump ==
  [][\A p \in Procs :
       (/\ held.bumped
        /\ req[p].op = "refresh" /\ req'[p].op = "idle"
        /\ req[p].doc.refreshToken = RefreshOf(held.token))
       => ~SessionCheck(last.access)']_vars

\* The handlers of the routes declared with checkRole('admin', ...).
AdminGated(route) ==
  \E k \in 1..Len(route.chain) :
    route.chain[k][1] = "checkRole" /\ route.chain[k][2] = "admin"

HandlerOf(route) == route.chain[Len(route.chain)][2]

AdminHandlers(router) ==
  {HandlerOf(Routes(router)[k]) :
     k \in {j \in 1..Len(Routes(router)) : AdminGated(Routes(router)[j])}}

Dispatched == Routes(http.request.router)[http.route]

HandlerRan == \E k \in 1..Len(http.ran) : http.ran[k][1] = "handler"

Rejected == http.status \in {"400", "401", "403"}

\* C17: on every route declared with checkRole('admin', ...) the handler runs
\* only after authenticate accepted the bearer token and, after it, the role
\* gate allowed the caller; a rejection by either ends the request before the
\* handler runs.
C17_AdminRoutesGated ==
  /\ AdminHandlers("auth") =
       {"getAllUsers", "getOnlineUsers", "activateUser", "verifyUserByAdmin",
        "deleteUser"}
  /\ AdminHandlers("vendors") =
       {"getVendorsForAdmin", "toggleAccountStatus",
        "updateVendorVerificationStatus"}
  /\ (http.route # 0 /\ AdminGated(Dispatched)) =>
       /\ HandlerRan =>
            /\ http.request.tokenOk
            /\ http.request.role = "admin"
            /\ \E i, j, k \in 1..Len(http.ran) :
                 /\ i < j /\ j < k
                 /\ http.ran[i] = AuthenticateMw
                 /\ http.ran[j][1] = "checkRole" /\ http.ran[j][2] = "admin"
                 /\ http.ran[k][1] = "handler"
       /\ (~http.request.tokenOk \/ http.request.role # "admin") => ~HandlerRan
       /\ Rejected => ~HandlerRan

C17_Witness ==
  /\ http.route # 0
  /\ AdminGated(Dispatched)
  /\ http.status = "handled"
  /\ HandlerOf(Dispatched) = "activateUser"

C17_WitnessRejected ==
  /\ http.route # 0
  /\ AdminGated(Dispatched)
  /\ http.status = "403"
  /\ http.request.tokenOk

\* C18: GET /users/:id is admin only: a request from an authenticated caller
\* whose role is not admin never reaches the getUserById handler.
C18_GetUserByIdAdminOnly ==
  (/\ http.route # 0
   /\ HandlerOf(Dispatched) = "getUserById"
   /\ http.request.tokenOk
   /\ http.request.role # "admin") => ~HandlerRan

\* C18, the part the routes keep: an unauthenticated request never reaches
\* the getUserById handler.
C18_GetUserByIdAuthenticated ==
  (/\ http.route # 0
   /\ HandlerOf(Dispatched) = "getUserById"
   /\ ~http.request.tokenOk) => ~HandlerRan

\* The last product request was updateProduct or deleteProduct by a caller who
\* is not admin, on a product of another vendor.
OnAnothersProduct ==
  /\ catalog.call.op \in {"updateProduct", "deleteProduct"}
  /\ catalog.call.user.role # "admin"
  /\ catalog.call.before.exists
  /\ catalog.call.before.vendor # catalog.call.user.id

\* C19: updateProduct and deleteProduct invoked by a non-admin on a product
\* owned by another vendor leave that product unchanged and answer 404, while
\* an admin can update or soft-delete any product.
C19_VendorOwnsProducts ==
  /\ OnAnothersProduct =>
       /\ catalog.call.status = 404
       /\ catalog.products[catalog.call.id] = catalog.call.before
  /\ (/\ catalog.call.op = "updateProduct"
      /\ catalog.call.user.role = "admin"
      /\ catalog.call.before.exists
      /\ ~catalog.call.before.isDeleted) =>
       /\ catalog.call.status = 200
       /\ catalog.products[catalog.call.id].vendor = catalog.call.before.vendor
  /\ (/\ catalog.call.op = "deleteProduct"
      /\ catalog.call.user.role = "admin"
      /\ catalog.call.before.exists) =>
       /\ catalog.call.status = 200
       /\ catalog.products[catalog.call.id].isDeleted

\* C19, the part the controller keeps: the admin updates and soft-deletes any
\* product, and a request for a product that does not exist answers 404.
C19_AdminAnyProduct ==
  /\ (/\ catalog.call.op = "updateProduct"
      /\ catalog.call.user.role = "admin"
      /\ catalog.call.before.exists
      /\ ~catalog.call.before.isDeleted) => catalog.call.status = 200
  /\ (/\ catalog.call.op = "deleteProduct"
      /\ catalog.call.user.role = "admin"
      /\ catalog.call.before.exists) =>
       /\ catalog.call.status = 200
       /\ catalog.products[catalog.call.id].isDeleted
  /\ (/\ catalog.call.op \in {"updateProduct", "deleteProduct"}
      /\ ~catalog.call.before.exists) => catalog.call.status = 404

\* The verdicts of the validators a hook runs on its form.
Reported(hook, form) ==
  IF hook = "useLogin" THEN {form.email, form.password} \ {""}
  ELSE {form.name, form.email, form.password, form.passwordMatch} \ {""}

ValidatedHandlers == {"registerUser", "registerVendorUser", "loginUser"}

C20_ServerValidatesFirst ==
  (http.route # 0 /\ http.request.path \in ValidatedPaths) =>
    /\ HandlerOf(Dispatched) \in ValidatedHandlers
    /\ HandlerRan =>
         /\ http.request.inputOk
         /\ Len(http.ran) = 2
         /\ http.ran[1][1] = "validation"
         /\ http.ran[2][1] = "handler"
    /\ ~http.request.inputOk => ~HandlerRan
    /\ http.status = "400" => ~HandlerRan

C20_ClientRaises ==
  client.hook # "" =>
    /\ (Reported(client.hook, client.input) # {}) <=> (client.error = 400)
    /\ client.error = 400 => client.message \in Reported(client.hook, client.input)

C20_ClientSendsNothing ==
  (client' # client /\ Reported(client'.hook, client'.input) # {}) =>
    client'.sent = client.sent

\* C20: on POST /register, /vendor-register and /login the validation
\* middleware runs before the controller and a validation failure ends the
\* request without running it; in the client useLogin, useRegister and
\* useRegisterVendor raise a 400 ApiError without sending any request when a
\* validator reports an error.
C20_MalformedInputRejectedFirst ==
  /\ [](C20_ServerValidatesFirst /\ C20_ClientRaises)
  /\ [][C20_ClientSendsNothing]_vars

C20_Witness ==
  /\ client.hook = "useRegisterVendor"
  /\ client.error = 400
  /\ client.message = "match error"
  /\ Len(client.sent) = 1
  /\ http.status = "400"
  /\ http.request.path = <<"vendor-register">>

ClientError(error) ==
  error.isApiError /\ error.status >= 400 /\ error.status < 500

\* A step in which a run of queryFn failed and the query runs it again.
Retried ==
  /\ query.status = "fetching"
  /\ query'.status = "fetching"
  /\ query'.failureCount = query.failureCount + 1

C21_NoRetryOfClientErrors ==
  /\ Retried => ~ClientError(query'.failureReason)
  /\ (query.status = "fetching" /\ query'.status = "error"
        /\ ~ClientError(query'.error)) => query.failureCount = 3

C21_AtMostThreeRetries ==
  /\ query.status = "fetching" => query.failureCount <= 3
  /\ query.status = "error" =>
       IF ClientError(query.error) THEN query.failureCount <= 4
                                   ELSE query.failureCount = 4

\* C21: a profile fetch that fails with a 4xx status is not retried at all, a
\* fetch that fails for any other reason is retried at most 3 times, and every
\* profile fetch eventually settles.
C21_ProfileFetchSettles ==
  /\ [][C21_NoRetryOfClientErrors]_vars
  /\ []C21_AtMostThreeRetries
  /\ (query.status = "fetching") ~> (query.status \in {"success", "error"})

C21_Witness ==
  /\ query.status = "error"
  /\ query.error = [isApiError |-> TRUE, status |-> 401]
  /\ query.failureCount = 1
  /\ query.fetches = 2

\* A step in which a consumption request of the kind saves, for the token the
\* model follows as consumed and not issued again since.
ConsumedAgain(kind, op) ==
  /\ spent[kind].token # NoToken
  /\ ~spent[kind].again
  /\ \E p \in Procs : req[p].op = op /\ req'[p].op = "idle"
  /\ last'.op = op
  /\ last'.err = ""
  /\ last'.tok = spent[kind].token

\* C22: when two consumption requests for the same valid reset token (or the
\* same valid verification token) interleave, at most one of them succeeds and
\* the token takes effect at most once.
C22_InterleavedConsumeOnce ==
  [][~ConsumedAgain("reset", "reset") /\ ~ConsumedAgain("verify", "verify")]_vars

\* A step in which refreshTokens is saved for a refresh token that
\* findByRefreshToken no longer finds: the stored one has been replaced.
ExchangedStale ==
  \E p \in Procs :
    /\ req[p].op = "refresh"
    /\ req'[p].op = "idle"
    /\ users[req[p].id].refreshToken # req[p].doc.refreshToken

\* After a saved logout no refresh token of the user is stored.
LogoutClears ==
  (last.op = "logout" /\ last.err = "") =>
    users[last.id].refreshToken = NoToken

\* After a saved login or refresh the stored refresh token is the one issued.
NewestStored ==
  (last.op \in {"login", "refresh"} /\ last.err = "") =>
    users[last.id].refreshToken = last.refresh

\* C27: each user has at most one redeemable refresh token: after
\* loginWithTokens or refreshTokens is saved only the newest one is found,
\* after clearRefreshToken none is, and a given refresh token is exchanged for
\* new tokens at most once even when two refresh requests carrying it
\* interleave.
C27_OneRedeemableRefreshToken ==
  /\ [](LogoutClears /\ NewestStored)
  /\ [][~ExchangedStale]_vars

\* A find step accepts a token: it is the one stored for the user found.
AcceptsStoredOnly ==
  \A p \in Procs :
    /\ (req[p].op = "idle" /\ req'[p].op = "reset") =>
         /\ users[req'[p].id].resetPasswordToken = req'[p].doc.resetPasswordToken
         /\ last' = NoResp
    /\ (req[p].op = "idle" /\ req'[p].op = "verify") =>
         users[req'[p].id].emailVerificationToken =
           req'[p].doc.emailVerificationToken

\* An issue step stores the token it signs, with its expiry.
IssueOverwrites ==
  \A p \in Procs :
    /\ (req[p].op = "forgot" /\ req'[p].op = "idle") =>
         /\ users'[req[p].id].resetPasswordToken =
              JwtSign(<<req[p].id, req[p].doc.email>>, "JWT_SECRET", ResetTTL, now)
         /\ users'[req[p].id].resetPasswordExpires = now + ResetTTL
    /\ (req[p].op \in {"sendVerification", "resendVerification"}
          /\ req'[p].op = "idle") =>
         /\ users'[req[p].id].emailVerificationToken =
              JwtSign(<<req[p].id, req[p].doc.email>>, "JWT_SECRET", VerifyTTL, now)
         /\ users'[req[p].id].emailVerificationExpires = now + VerifyTTL

\* A consumption is saved: its token is still the one stored, no other
\* having been issued since it was found.
ConsumesStoredOnly ==
  \A p \in Procs :
    /\ (req[p].op = "reset" /\ req'[p].op = "idle") =>
         users[req[p].id].resetPasswordToken = req[p].doc.resetPasswordToken
    /\ (req[p].op = "verify" /\ req'[p].op = "idle") =>
         users[req[p].id].emailVerificationToken =
           req[p].doc.emailVerificationToken

\* C28: only the most recently issued verification token and the most recently
\* issued reset token of a user can be consumed: issuing a new one overwrites
\* the stored token and expiry, and every earlier token of the same kind is
\* rejected from then on.
C28_OnlyNewestTokenConsumed ==
  [][AcceptsStoredOnly /\ IssueOverwrites /\ ConsumesStoredOnly]_vars

ReadOps == {"getProductById", "getAllProducts", "getVendorProducts"}

\* deleteProduct marks the product and keeps the record; no operation removes one.
SoftDeleteOnly ==
  /\ \A i \in ProductIds : catalog.products[i].exists => catalog'.products[i].exists
  /\ (catalog'.call.op = "deleteProduct" /\ catalog'.call.status = 200) =>
       /\ catalog'.products[catalog'.call.id].isDeleted
       /\ ~catalog'.products[catalog'.call.id].isActive

\* A deleted product is in no read answer and updateProduct does not change it.
DeletedIsHidden ==
  /\ catalog.call.op \in ReadOps =>
       \A i \in catalog.call.results : ~catalog.products[i].isDeleted
  /\ (catalog.call.op = "updateProduct" /\ catalog.call.before.isDeleted) =>
       /\ catalog.call.status = 404
       /\ catalog.products[catalog.call.id] = catalog.call.before

DeletedIsInactive ==
  \A i \in ProductIds : catalog.products[i].isDeleted => ~catalog.products[i].isActive

\* C29: deleteProduct sets isDeleted=true and isActive=false and never removes
\* the record; after it the product is returned by none of getProductById,
\* getAllProducts and getVendorProducts and cannot be changed by updateProduct;
\* every product with isDeleted=true has isActive=false.
C29_SoftDelete ==
  /\ [][SoftDeleteOnly]_vars
  /\ [](DeletedIsHidden /\ DeletedIsInactive)

\* C29, the part the controller keeps.
C29_DeletedStaysHidden ==
  /\ [][SoftDeleteOnly]_vars
  /\ []DeletedIsHidden

OpenPayments(order) ==
  {k \in 1..Len(pay.payments) :
     /\ pay.payments[k].order = order
     /\ pay.payments[k].status \in {"pending", "completed"}}

\* C23: each order has at most one payment whose status is pending or
\* completed, under any interleaving of createPayment requests and webhook
\* deliveries; createPayment for an order that has one answers 409 and creates
\* nothing.
C23_OneOpenPaymentPerOrder ==
  \A order \in OrderIds : Cardinality(OpenPayments(order)) <= 1

\* C23, the part that holds: a createPayment that finds such a payment answers
\* 409 and creates nothing.
C23_ExistingPaymentConflicts ==
  [][(pay'.answer.op = "createPayment" /\ pay'.answer.status = 409
        /\ pay'.answer # pay.answer) =>
       /\ pay'.payments = pay.payments
       /\ \E k \in 1..Len(pay.payments) :
            pay.payments[k].status \in {"pending", "completed"}]_vars

\* C24: processWebhooks answers 400 'Unknown payment provider' only for a
\* provider other than 'stripe' and 'paystack'; for these two it runs the
\* provider's handler and answers 200.
C24_WebhookDispatch ==
  (pay.answer.op = "processWebhooks" /\ pay.answer.status = 400) =>
    pay.answer.event \notin {"stripe", "paystack"}

\* A step in which a handler returns from a success event.
ReturnsFromSuccess(p) ==
  /\ pay.work[p].op \in {"stripe", "paystack"}
  /\ pay'.work[p].op = "idle"
  /\ pay.work[p].request.type \in SuccessEvents

OrderOf(k) == pay.orders[pay.payments[k].order]

\* C25: when a handler finishes a success event, the payment is completed and
\* its order has paymentStatus completed and orderStatus processing; a completed
\* payment whose order is not completed has its handler still running.
C25_SuccessCompletesPaymentAndOrder ==
  /\ [][\A p \in Procs :
          ReturnsFromSuccess(p) =>
            /\ pay'.payments[pay.work[p].payment].status = "completed"
            /\ pay'.orders[pay.payments[pay.work[p].payment].order] =
                 [paymentStatus |-> "completed", orderStatus |-> "processing"]]_vars
  /\ [](\A k \in 1..Len(pay.payments) :
          (pay.payments[k].status = "completed"
             /\ OrderOf(k).paymentStatus # "completed") =>
            \E p \in Procs : /\ pay.work[p].op \in {"stripe", "paystack"}
                             /\ pay.work[p].payment = k
                             /\ "order" \in pay.work[p].todo)

\* C25, the order's part alone.
C25_OrderCompleted ==
  /\ [][\A p \in Procs :
          ReturnsFromSuccess(p) =>
            pay'.orders[pay.payments[pay.work[p].payment].order] =
              [paymentStatus |-> "completed", orderStatus |-> "processing"]]_vars
  /\ [](\A k \in 1..Len(pay.payments) :
          (pay.payments[k].status = "completed"
             /\ OrderOf(k).paymentStatus # "completed") =>
            \E p \in Procs : /\ pay.work[p].op \in {"stripe", "paystack"}
                             /\ pay.work[p].payment = k
                             /\ "order" \in pay.work[p].todo)

WebhookError ==
  /\ pay.answer.op \in {"stripe", "paystack"}
  /\ pay.answer.status = 500

\* C26: a webhook whose signature does not verify, or whose payment id matches
\* no stored payment, raises an error and leaves every payment and order
\* unchanged; no handler goes on to its updates for such a webhook.
C26_FailedWebhookChangesNothing ==
  /\ [](\A p \in Procs :
          pay.work[p].op \in {"stripe", "paystack"} =>
            /\ pay.work[p].request.signatureOk
            /\ pay.work[p].payment \in 1..Len(pay.payments)
            /\ pay.payments[pay.work[p].payment].paymentId =
                 pay.work[p].request.paymentId)
  /\ [](WebhookError =>
          pay.answer.message \in {"Invalid webhook signature",
                                  "StripeSignatureVerificationError",
                                  "Payment not found"})
  /\ [][(pay'.answer # pay.answer /\ pay'.answer.op \in {"stripe", "paystack"}
           /\ pay'.answer.status = 500) =>
          /\ pay'.payments = pay.payments
          /\ pay'.orders = pay.orders
          /\ pay'.work = pay.work]_vars

C26_Witness ==
  /\ pay.answer.op = "paystack"
  /\ pay.answer.message = "Invalid webhook signature"
  /\ \E k \in 1..Len(pay.payments) :
       /\ pay.payments[k].paymentProvider = "paystack"
       /\ pay.payments[k].status = "pending"


====
